---- MODULE Spec2Model ----
(***************************************************************************)
(* Snowclaw collective memory: the local indexed cache (memory records,    *)
(* indexed messages, indexed document chunks, each with a lexical index),  *)
(* ingestion of authoritative events, and the unified, trust-ranked        *)
(* search over it.                                                         *)
(***************************************************************************)
EXTENDS Integers, Sequences, FiniteSets, TLC

VARIABLES
    db,         \* the committed cache: what every reader sees
    tx,         \* the write transaction in flight: <<>> or <<t>>
    log,        \* the authoritative events the relays hold
    prefs,      \* the operator's source preference list
    result,     \* the response of the last search on the current snapshot: <<>> or <<r>>
    history,    \* the response of the last getHistory on the current snapshot: <<>> or <<h>>
    replica,    \* a second cache instance fed from the same authoritative log
    replicaResult, \* the replica's response to the same search: <<>> or <<r>>
    candidates, \* rank_memories: the unranked search results handed in
    ranked,     \* rank_memories: the ranked list handed back
    conflicts,  \* the response of the last listConflicts on the current snapshot: <<>> or <<c>>
    resolution, \* the response of the last resolveConflict on the current snapshot: <<>> or <<r>>
    published,  \* what the publish hook onLocalWrite has emitted, in order
    relay,      \* the authoritative transport: the events it still holds
    config,     \* the restricted (owner-scoped) namespace: the value under each key
    suppressed, \* ids of records the operator has suppressed locally
    dropped,    \* number of events ingestion has dropped with a diagnostic
    feed,       \* the events the ingestion feed has yet to deliver
    known,      \* the senders the system already knows
    decision,   \* the last indexing decision: <<>> or <<[item, context, outcome]>>
    embedded,   \* ids of the indexed messages that carry an embedding
    files,      \* the file system under the indexed paths
    sweep,      \* the re-indexing sweep: its position and what it has read
    remote,     \* per remote source: the sync task in flight, if any
    pending,    \* searches waiting for a sync: per caller, <<>> or <<wait>>
    answer,     \* the response handed to each caller of a syncing search
    writers,    \* the concurrent writers: position, job and working copy of each
    failure,    \* the last failed write: <<>> or <<[op, arg, before]>>
    batch,      \* the batch being written: its items, position, attempts and outcomes
    taskState,  \* the task: its status and the status events accepted and rejected
    state,      \* relay.ts: the module's state (url, relay, status, subscriptions, eventCount)
    net,        \* the Relay and Sub objects created, the connect() calls awaiting, the clock
    notified,   \* the statuses the status listeners have been called with, in order
    logEntries  \* debug-console.ts: the children of the log element, first child first

vars == <<db, tx, log, prefs, result, history, replica, replicaResult, candidates, ranked,
          conflicts, resolution, published, relay, config, suppressed, dropped, feed,
          known, decision, embedded, files, sweep, remote, pending, answer, writers,
          failure, batch, taskState, state, net, notified, logEntries>>

\* The state of conflict handling and of the sync with the transport.
syncVars == <<conflicts, resolution, published, relay, config, suppressed, dropped, feed>>

\* The state of the indexing policy, the sweep, the sync tasks and the writers.
taskVars == <<known, decision, embedded, files, sweep, remote, pending, answer, writers>>

\* The state of error handling, of the task and of the debug console.
moreVars == <<failure, batch, taskState, state, net, notified, logEntries>>

None == "none"

----------------------------------------------------------------------------
(* Bounds *)

MaxLimit == 3       \* largest search limit a caller passes
MaxChunks == 1      \* chunks per indexed file
MaxTime == 3        \* createdAt values 1..MaxTime
MaxCandidates == 2  \* results handed to rank_memories in one call

----------------------------------------------------------------------------
(* Record model *)

Self == "A"
Identities == {"A", "B", "C"}
Groups == {"g1"}

\* The membership collaborator: A and B are members of g1, C is not.
isMember(identity, group) == group = "g1" /\ identity \in {"A", "B"}

Public == [kind |-> "Public", scope |-> None]
Group(g) == [kind |-> "Group", scope |-> g]
Private(owner) == [kind |-> "Private", scope |-> owner]
MemoryTier == {Public} \cup {Group(g) : g \in Groups} \cup {Private(o) : o \in Identities}

Tokens == {"x", "y"}
Texts == (SUBSET Tokens) \ {{}}

Memory(id, tier, topic, source, model, supersedes, createdAt, detail) ==
    [id |-> id, tier |-> tier, topic |-> topic, source |-> source, model |-> model,
     supersedes |-> supersedes, createdAt |-> createdAt, detail |-> detail]

\* Model names are vendor/name pairs; a pattern names a model exactly or,
\* with "*", every model of the vendor.
Opus == <<"anthropic", "claude-opus-4">>
Gpt41 == <<"openai", "gpt-4.1">>
Mistral7 == <<"mistral", "7b">>
Homebrew == <<"acme", "homebrew">>
NoModel == <<"none", "none">>    \* an item no model produced (message, document)
Models == {Opus, Gpt41, Mistral7, Homebrew}

ModelTierTable ==
    << [pattern |-> <<"anthropic", "claude-opus-4">>, tier |-> 1],
       [pattern |-> <<"openai", "gpt-4.1">>, tier |-> 2],
       [pattern |-> <<"mistral", "*">>, tier |-> 4] >>

LowestTier == 4
UnrankedTier == LowestTier + 1

PatternMatches(pattern, model) ==
    /\ pattern[1] = model[1]
    /\ pattern[2] = "*" \/ pattern[2] = model[2]

modelTier(model) ==
    LET hits == {i \in 1..Len(ModelTierTable) : PatternMatches(ModelTierTable[i].pattern, model)}
    IN  IF hits = {} THEN UnrankedTier
        ELSE ModelTierTable[CHOOSE i \in hits : \A j \in hits : i <= j].tier

----------------------------------------------------------------------------
(* Source preference list: trust weights in tenths, 0..10 *)

DefaultWeight == 0

NpubPref(npub, trust) == [npub |-> npub, group |-> None, trust |-> trust]
GroupPref(group, trust) == [npub |-> None, group |-> group, trust |-> trust]

SourceMatches(prefList, source) == {i \in 1..Len(prefList) : prefList[i].npub = source}
GroupMatches(prefList, tier) ==
    {i \in 1..Len(prefList) : tier.kind = "Group" /\ prefList[i].group = tier.scope}

First(S) == CHOOSE i \in S : \A j \in S : i <= j
Max(S) == CHOOSE m \in S : \A n \in S : n <= m

\* The position of the entry that ranks an item: the first entry for its
\* source, else the first entry for its group, else 0 (no entry).
PreferenceEntry(prefList, source, tier) ==
    IF SourceMatches(prefList, source) # {} THEN First(SourceMatches(prefList, source))
    ELSE IF GroupMatches(prefList, tier) # {} THEN First(GroupMatches(prefList, tier))
    ELSE 0

UnrankedPosition(prefList) == Len(prefList) + 1

\* Mutant: the weight of the last entry for the source, not the first.
trustWeightLastMatch(prefList, source, tier) ==
    IF SourceMatches(prefList, source) # {}
    THEN prefList[Max(SourceMatches(prefList, source))].trust
    ELSE IF GroupMatches(prefList, tier) # {}
    THEN prefList[Max(GroupMatches(prefList, tier))].trust
    ELSE DefaultWeight

trustWeight(prefList, source, tier) ==
    LET i == PreferenceEntry(prefList, source, tier)
    IN  IF i = 0 THEN DefaultWeight ELSE prefList[i].trust

sourceRank(prefList, source, tier) ==
    LET i == PreferenceEntry(prefList, source, tier)
    IN  IF i = 0 THEN UnrankedPosition(prefList) ELSE i

----------------------------------------------------------------------------
(* The cache tables and their lexical index *)

Key(type, id, idx) == [type |-> type, id |-> id, idx |-> idx]
MemKey(id) == Key("memory", id, 0)
MsgKey(id) == Key("message", id, 0)
DocKey(path, idx) == Key("doc", path, idx)

\* content_hash: a digest of the unit's content (distinct contents, distinct digests)
content_hash(content) == <<"sha256", content>>

IndexedMessage(id, sender, group, content, createdAt) ==
    [event_id |-> id, sender_hex |-> sender, group_id |-> group,
     content |-> content, created_at |-> createdAt]

IndexedDoc(path, idx, content) ==
    [path |-> path, chunk_index |-> idx, content |-> content, hash |-> content_hash(content)]

EmptyDb == [memories |-> <<>>, messages |-> <<>>, docs |-> <<>>, fts |-> {}]

Range(s) == {s[i] : i \in 1..Len(s)}

RECURSIVE SelectRows(_, _)
SelectRows(rows, keep) ==
    IF rows = <<>> THEN <<>>
    ELSE IF Head(rows) \in keep THEN <<Head(rows)>> \o SelectRows(Tail(rows), keep)
    ELSE SelectRows(Tail(rows), keep)

\* An index operation an FTS5 trigger issues for one row.  The external
\* content index deletes an entry by the row's old text.
FtsOp(cmd, key, text) == [cmd |-> cmd, key |-> key, tokens |-> text]

ApplyFtsOp(fts, op) ==
    IF op.cmd = "insert" THEN fts \cup {[key |-> op.key, tokens |-> op.tokens]}
    ELSE fts \ {[key |-> op.key, tokens |-> op.tokens]}

RECURSIVE ApplyFtsOps(_, _)
ApplyFtsOps(fts, ops) ==
    IF ops = <<>> THEN fts ELSE ApplyFtsOps(ApplyFtsOp(fts, Head(ops)), Tail(ops))

\* AFTER INSERT / AFTER UPDATE / AFTER DELETE triggers of a content table.
InsertTrigger(key, text) == <<FtsOp("insert", key, text)>>
\* Mutant: the update trigger indexes the new text and leaves the old entry.
UpdateTriggerInsertOnly(key, oldText, newText) == <<FtsOp("insert", key, newText)>>

UpdateTrigger(key, oldText, newText) ==
    <<FtsOp("delete", key, oldText), FtsOp("insert", key, newText)>>
DeleteTrigger(key, text) == <<FtsOp("delete", key, text)>>

\* A row write: the table after the write and the trigger operations it fired.
Written(table, ops) == [table |-> table, ops |-> ops]

\* INSERT OR REPLACE of one row; `at` is the position of the row that holds
\* the key (0: none) and oldText its text.  The replaced row keeps its place
\* and the update trigger swaps its index entry.
\* Mutant: a plain INSERT, whether or not a row holds the key.
UpsertRowAlwaysInsert(rows, at, row, key, oldText, newText) ==
    Written(Append(rows, row), InsertTrigger(key, newText))

UpsertRow(rows, at, row, key, oldText, newText) ==
    IF at = 0 THEN Written(Append(rows, row), InsertTrigger(key, newText))
    ELSE Written([rows EXCEPT ![at] = row], UpdateTrigger(key, oldText, newText))

MemoryAt(memories, id) ==
    IF \E i \in 1..Len(memories) : memories[i].id = id
    THEN CHOOSE i \in 1..Len(memories) : memories[i].id = id ELSE 0

MessageAt(messages, id) ==
    IF \E i \in 1..Len(messages) : messages[i].event_id = id
    THEN CHOOSE i \in 1..Len(messages) : messages[i].event_id = id ELSE 0

\* Mutant: keyed like the transport, by author, tier and topic.
upsertByAddress(memories, record) ==
    LET same == {i \in 1..Len(memories) :
                    /\ memories[i].source = record.source
                    /\ memories[i].tier = record.tier
                    /\ memories[i].topic = record.topic}
        at == IF same = {} THEN 0 ELSE CHOOSE i \in same : TRUE
    IN  UpsertRow(memories, at, record, MemKey(record.id),
                  IF at = 0 THEN {} ELSE memories[at].detail, record.detail)

\* upsert(record): keyed by the record's id
upsert(memories, record) ==
    LET at == MemoryAt(memories, record.id)
    IN  UpsertRow(memories, at, record, MemKey(record.id),
                  IF at = 0 THEN {} ELSE memories[at].detail, record.detail)

\* upsertMessage(message): keyed by the message's event id
upsertMessage(messages, message) ==
    LET at == MessageAt(messages, message.event_id)
    IN  UpsertRow(messages, at, message, MsgKey(message.event_id),
                  IF at = 0 THEN {} ELSE messages[at].content, message.content)

RECURSIVE ChunkRows(_, _, _)
ChunkRows(path, chunks, from) ==
    IF chunks = <<>> THEN <<>>
    ELSE <<IndexedDoc(path, from, Head(chunks))>> \o ChunkRows(path, Tail(chunks), from + 1)

RECURSIVE TriggerAll(_, _)
TriggerAll(rows, cmd) ==
    IF rows = <<>> THEN <<>>
    ELSE <<FtsOp(cmd, DocKey(Head(rows).path, Head(rows).chunk_index), Head(rows).content)>>
         \o TriggerAll(Tail(rows), cmd)

HashesOf(rows) == [i \in 1..Len(rows) |-> rows[i].hash]

\* Mutant: the new chunks are added and the file's old units stay.
upsertDocumentChunksAppend(docs, path, chunks) ==
    LET old == SelectRows(docs, {r \in Range(docs) : r.path = path})
        new == ChunkRows(path, chunks, Len(old))
    IN  IF HashesOf(old) = HashesOf(ChunkRows(path, chunks, 0)) THEN Written(docs, <<>>)
        ELSE Written(docs \o new, TriggerAll(new, "insert"))

\* upsertDocumentChunks(path, chunks): keyed by path.  Unchanged hashes
\* are skipped; otherwise the file's units are replaced by the new chunks.
upsertDocumentChunks(docs, path, chunks) ==
    LET old == SelectRows(docs, {r \in Range(docs) : r.path = path})
        rest == SelectRows(docs, {r \in Range(docs) : r.path # path})
        new == ChunkRows(path, chunks, 0)
    IN  IF HashesOf(old) = HashesOf(new) THEN Written(docs, <<>>)
        ELSE Written(rest \o new, TriggerAll(old, "delete") \o TriggerAll(new, "insert"))

----------------------------------------------------------------------------
(* Unified search and ranking *)

RelevanceScale == 10    \* relevance 0..10 stands for [0, 1] in tenths

\* FTS5 MATCH of the query words joined by OR: the raw rank of a row is the
\* number of query words its index entry holds (0: no match).
FtsRank(fts, key, query) ==
    Max({0} \cup {Cardinality(e.tokens \cap query) : e \in {f \in fts : f.key = key}})

\* Raw relevance normalized to the common scale.
relevance(fts, key, query) == (FtsRank(fts, key, query) * RelevanceScale) \div Cardinality(query)

MemoryItem(r) ==
    [key |-> MemKey(r.id), source |-> r.source, tier |-> r.tier, model |-> r.model,
     createdAt |-> r.createdAt, text |-> r.detail]
MessageItem(m) ==
    [key |-> MsgKey(m.event_id), source |-> m.sender_hex,
     tier |-> IF m.group_id = None THEN Private(Self) ELSE Group(m.group_id),
     model |-> NoModel, createdAt |-> m.created_at, text |-> m.content]
DocItem(d) ==
    [key |-> DocKey(d.path, d.chunk_index), source |-> Self, tier |-> Private(Self),
     model |-> NoModel, createdAt |-> 0, text |-> d.content]

\* Mutant: the owner of a private item is not compared with the caller.
InScopeAnyOwner(caller, tier) ==
    \/ tier.kind = "Public"
    \/ tier.kind = "Group" /\ isMember(caller, tier.scope)
    \/ tier.kind = "Private"

\* Private items only to their owner, group items only to members, public to all.
InScope(caller, tier) ==
    \/ tier.kind = "Public"
    \/ tier.kind = "Group" /\ isMember(caller, tier.scope)
    \/ tier.kind = "Private" /\ tier.scope = caller

\* A record is superseded when the cache knows a successor of it.
\* Mutant: the successor is looked up by the wrong field.
HasSuccessorByTopic(memories, r) == \E s \in Range(memories) : s.supersedes = r.topic

HasSuccessor(memories, r) == \E s \in Range(memories) : s.supersedes = r.id

\* Mutant: no collapse, every version is a candidate.
CurrentVersionsAll(memories) == memories

\* Collapse every version chain to its current version.
CurrentVersions(memories) ==
    SelectRows(memories, {r \in Range(memories) : ~HasSuccessor(memories, r)})

\* Mutant: the primary key is the raw relevance, not the effective score.
PrecedesByRelevance(a, b) ==
    \/ a.relevance > b.relevance
    \/ /\ a.relevance = b.relevance
       /\ \/ a.sourceRank < b.sourceRank
          \/ /\ a.sourceRank = b.sourceRank
             /\ \/ a.modelTier < b.modelTier
                \/ /\ a.modelTier = b.modelTier
                   /\ a.createdAt > b.createdAt

\* Mutant: the last tie-break prefers the older item.
PrecedesOldestFirst(a, b) ==
    \/ a.effectiveScore > b.effectiveScore
    \/ /\ a.effectiveScore = b.effectiveScore
       /\ \/ a.sourceRank < b.sourceRank
          \/ /\ a.sourceRank = b.sourceRank
             /\ \/ a.modelTier < b.modelTier
                \/ /\ a.modelTier = b.modelTier
                   /\ a.createdAt < b.createdAt

\* Mutant: the model tier is not compared.
PrecedesSkipsTier(a, b) ==
    \/ a.effectiveScore > b.effectiveScore
    \/ /\ a.effectiveScore = b.effectiveScore
       /\ \/ a.sourceRank < b.sourceRank
          \/ /\ a.sourceRank = b.sourceRank
             /\ a.modelTier = b.modelTier
             /\ a.createdAt > b.createdAt

\* a precedes b: effectiveScore descending, then sourceRank ascending,
\* then modelTier ascending, then createdAt descending.
Precedes(a, b) ==
    \/ a.effectiveScore > b.effectiveScore
    \/ /\ a.effectiveScore = b.effectiveScore
       /\ \/ a.sourceRank < b.sourceRank
          \/ /\ a.sourceRank = b.sourceRank
             /\ \/ a.modelTier < b.modelTier
                \/ /\ a.modelTier = b.modelTier
                   /\ a.createdAt > b.createdAt

Older(a, b) == a.createdAt < b.createdAt

Before(order, a, b) == IF order = "rank" THEN Precedes(a, b) ELSE Older(a, b)

\* Mutant: no comparison, x goes to the end.
InsertByAppend(sorted, x, order) == Append(sorted, x)

\* Stable insertion: x goes in front of the first element it comes before.
RECURSIVE InsertBy(_, _, _)
InsertBy(sorted, x, order) ==
    IF sorted = <<>> THEN <<x>>
    ELSE IF Before(order, x, Head(sorted)) THEN <<x>> \o sorted
    ELSE <<Head(sorted)>> \o InsertBy(Tail(sorted), x, order)

\* Mutant: the list is handed back as it came.
SortByUnsorted(s, order) == s

RECURSIVE SortBy(_, _)
SortBy(s, order) ==
    IF s = <<>> THEN <<>>
    ELSE InsertBy(SortBy(SubSeq(s, 1, Len(s) - 1), order), s[Len(s)], order)

\* One search result: the item with its ranking breakdown.
SearchResult(item, rel, prefList) ==
    [key |-> item.key, source |-> item.source, tier |-> item.tier,
     createdAt |-> item.createdAt, text |-> item.text,
     relevance |-> rel,
     trustWeight |-> trustWeight(prefList, item.source, item.tier),
     sourceRank |-> sourceRank(prefList, item.source, item.tier),
     modelTier |-> modelTier(item.model),
     effectiveScore |-> rel * trustWeight(prefList, item.source, item.tier)]

\* rank_memories(results, prefs): score every result and sort.
rank_memories(results, prefList) ==
    SortBy([i \in 1..Len(results) |->
               SearchResult(results[i].item, results[i].relevance, prefList)],
           "rank")

Take(s, n) == SubSeq(s, 1, IF Len(s) < n THEN Len(s) ELSE n)

\* The items of every type, version chains collapsed, in table order.
Items(d) ==
    [i \in 1..Len(CurrentVersions(d.memories)) |-> MemoryItem(CurrentVersions(d.memories)[i])]
    \o [i \in 1..Len(d.messages) |-> MessageItem(d.messages[i])]
    \o [i \in 1..Len(d.docs) |-> DocItem(d.docs[i])]

\* search(query, callerScope, limit)
search(d, prefList, query, caller, limit) ==
    LET items == Items(d)
        keep == {it \in Range(items) :
                    InScope(caller, it.tier) /\ FtsRank(d.fts, it.key, query) > 0}
        matched == SelectRows(items, keep)
        results == [i \in 1..Len(matched) |->
                       [item |-> matched[i],
                        relevance |-> relevance(d.fts, matched[i].key, query)]]
    IN  Take(rank_memories(results, prefList), limit)

\* getHistory(topic): every cached version, oldest to newest
getHistory(d, topic) ==
    SortBy(SelectRows(d.memories, {r \in Range(d.memories) : r.topic = topic}), "age")

----------------------------------------------------------------------------
(* Conflict detection and resolution *)

\* Padding that normalisation strips from a detail payload.
Blank == "_"
normalize(detail) == detail \ {Blank}

\* Mutant: payloads are compared as written.
DisagreeRaw(a, b) == a.source # b.source /\ a.detail # b.detail

\* Two records disagree: distinct sources, materially different detail.
Disagree(a, b) == a.source # b.source /\ normalize(a.detail) # normalize(b.detail)

TopicGroup(memories, topic) == {m \in Range(memories) : m.topic = topic}

\* detect_conflicts(memories): the topic groups that hold a disagreement.
detect_conflicts(memories) ==
    { g \in {TopicGroup(memories, m.topic) : m \in Range(memories)} :
        \E a, b \in g : Disagree(a, b) }

\* listConflicts(scope): the conflicts among the current versions in scope.
listConflicts(d, caller) ==
    LET current == CurrentVersions(d.memories)
    IN  detect_conflicts(SelectRows(current, {r \in Range(current) : InScope(caller, r.tier)}))

\* a beats b under the ranking tie-break: source rank, model tier, recency.
Wins(a, b, prefList) ==
    LET ra == sourceRank(prefList, a.source, a.tier)
        rb == sourceRank(prefList, b.source, b.tier)
    IN  \/ ra < rb
        \/ /\ ra = rb
           /\ \/ modelTier(a.model) < modelTier(b.model)
              \/ /\ modelTier(a.model) = modelTier(b.model)
                 /\ a.createdAt > b.createdAt

\* Mutant: the first record handed in always wins.
resolve_conflict_first(a, b, prefList) == [winner |-> a, loser |-> b]

\* resolve_conflict(a, b, prefs)
resolve_conflict(a, b, prefList) ==
    IF Wins(b, a, prefList) THEN [winner |-> b, loser |-> a] ELSE [winner |-> a, loser |-> b]

\* The winner of a whole group, its members taken in the order given.
RECURSIVE GroupWinner(_, _)
GroupWinner(members, prefList) ==
    IF Len(members) = 1 THEN members[1]
    ELSE resolve_conflict(GroupWinner(SubSeq(members, 1, Len(members) - 1), prefList),
                          members[Len(members)], prefList).winner

\* Mutant: the automatic resolution writes a record that supersedes the loser.
ResolutionWritesSuperseding(winner, group) ==
    LET loser == CHOOSE m \in group : m # winner
    IN  << [winner EXCEPT !.id = "n1", !.supersedes = loser.id] >>

\* What an automatic resolution writes to the cache and the publish hook.
ResolutionWrites(winner, group) == <<>>

\* resolveConflict(conflictGroup): order the members, write nothing.
resolveConflict(members, prefList) ==
    LET w == GroupWinner(members, prefList)
    IN  [kind |-> "auto", group |-> Range(members), members |-> members, winner |-> w,
         writes |-> ResolutionWrites(w, Range(members))]

Orderings(g) ==
    {o \in [1..Cardinality(g) -> g] : \A i, j \in 1..Cardinality(g) : o[i] = o[j] => i = j}

----------------------------------------------------------------------------
(* Inputs *)

Queries == (SUBSET Tokens) \ {{}}
Topics == {"t1", "t2"}

\* A supersedes chain r1 <- r2 <- r3 on topic t1, and one more record on t2.
ChainLog(chainTier, at2, extraTier, extraSource) ==
    { Memory("r1", chainTier, "t1", "B", Gpt41, None, 1, {"x"}),
      Memory("r2", chainTier, "t1", "A", Opus, "r1", at2, {"x", "y"}),
      Memory("r3", chainTier, "t1", "A", Opus, "r2", MaxTime, {"x"}),
      Memory("e1", extraTier, "t2", extraSource, Opus, None, MaxTime, {"x"}) }

ChainLogs ==
    { ChainLog(ct, at2, et, es) :
        ct \in {Public, Private("B")}, at2 \in 1..MaxTime,
        et \in {Public, Group("g1"), Private("A"), Private("B")}, es \in {"A", "B"} }

CacheLog ==
    { Memory("r1", Public, "t1", "B", Gpt41, None, 1, {"x"}),
      Memory("r2", Public, "t1", "A", Opus, "r1", MaxTime, {"x", "y"}),
      Memory("e1", Private("B"), "t2", "B", Opus, None, MaxTime, {"y"}) }

DefaultPrefs == << NpubPref("A", 9), NpubPref("B", 5) >>

PrefLists ==
    { DefaultPrefs,
      << GroupPref("g1", 9), NpubPref("B", 5) >> }

MessageInputs == { IndexedMessage("m1", "B", "g1", c, 1) : c \in {{"x"}, {"y"}} }

Paths == {"p1"}
ChunkLists == UNION { [1..k -> {{"x"}, {"y"}}] : k \in 0..MaxChunks }

----------------------------------------------------------------------------
(* Writers: one transaction at a time; readers see only the committed db *)

Staged(d, field, w) == [staged |-> [d EXCEPT ![field] = w.table], pending |-> w.ops]

\* The transaction of one write: the call it serves and what it has staged.
Begin(op, arg, d, field, w) ==
    [op |-> op, arg |-> arg, staged |-> Staged(d, field, w).staged,
     pending |-> Staged(d, field, w).pending]

NoTx == <<>>

\* upsert: the row write inside the transaction
Upsert(e) ==
    /\ tx = NoTx
    /\ e \in log
    /\ tx' = <<Begin("upsert", e, db, "memories", upsert(db.memories, e))>>
    /\ UNCHANGED <<db, log, prefs, result, history, replica, replicaResult, candidates, ranked, syncVars, taskVars, moreVars>>

UpsertMessage(m) ==
    /\ tx = NoTx
    /\ tx' = <<Begin("upsertMessage", m, db, "messages", upsertMessage(db.messages, m))>>
    /\ UNCHANGED <<db, log, prefs, result, history, replica, replicaResult, candidates, ranked, syncVars, taskVars, moreVars>>

UpsertDocumentChunks(path, chunks) ==
    /\ tx = NoTx
    /\ tx' = <<Begin("upsertDocumentChunks", [path |-> path, chunks |-> chunks], db, "docs",
                     upsertDocumentChunks(db.docs, path, chunks))>>
    /\ UNCHANGED <<db, log, prefs, result, history, replica, replicaResult, candidates, ranked, syncVars, taskVars, moreVars>>

\* The triggers of the written rows update the index inside the transaction.
RunTriggers(t) ==
    [t EXCEPT !.staged.fts = ApplyFtsOps(t.staged.fts, t.pending), !.pending = <<>>]

FtsTrigger ==
    /\ tx # NoTx
    /\ tx[1].pending # <<>>
    /\ tx' = <<RunTriggers(tx[1])>>
    /\ UNCHANGED <<db, log, prefs, result, history, replica, replicaResult, candidates, ranked, syncVars, taskVars, moreVars>>

\* Commit publishes row and index together and starts a new snapshot.
Commit ==
    /\ tx # NoTx
    /\ tx[1].pending = <<>>
    /\ db' = tx[1].staged
    /\ tx' = NoTx
    /\ result' = <<>>
    /\ history' = <<>>
    /\ UNCHANGED <<log, prefs, replica, replicaResult, candidates, ranked, syncVars, taskVars, moreVars>>

\* The reader has no response outstanding.
ReaderIdle == result = <<>> /\ history = <<>>

\* A reader: runs on the committed snapshot, whatever a writer has staged.
Search(query, caller, limit) ==
    /\ ReaderIdle
    /\ result' = <<[query |-> query, caller |-> caller, limit |-> limit,
                    hits |-> search(db, prefs, query, caller, limit)]>>
    /\ UNCHANGED <<db, tx, log, prefs, history, replica, replicaResult, candidates, ranked, syncVars, taskVars, moreVars>>

GetHistory(topic) ==
    /\ ReaderIdle
    /\ history' = <<[topic |-> topic, records |-> getHistory(db, topic)]>>
    /\ UNCHANGED <<db, tx, log, prefs, result, replica, replicaResult, candidates, ranked, syncVars, taskVars, moreVars>>

ConfigKeys == {"global"}
\* The fields a configuration key holds: respond_mode, by default "mention".
DefaultConfig == [k \in ConfigKeys |-> {"mention"}]

InitSync ==
    /\ conflicts = <<>>
    /\ resolution = <<>>
    /\ published = <<>>
    /\ relay = {}
    /\ config = DefaultConfig
    /\ suppressed = {}
    /\ dropped = 0
    /\ feed = {}

\* No message classified, no file, no sweep, no sync task, no writer.
InitTasks ==
    /\ known = {}
    /\ decision = <<>>
    /\ embedded = {}
    /\ files = <<>>
    /\ sweep = <<>>
    /\ remote = <<>>
    /\ pending = <<>>
    /\ answer = <<>>
    /\ writers = <<>>

InitMore ==
    /\ failure = <<>>
    /\ batch = <<>>
    /\ taskState = <<>>
    /\ state = <<>>
    /\ net = <<>>
    /\ notified = <<>>
    /\ logEntries = <<>>

Init ==
    /\ db = EmptyDb
    /\ tx = NoTx
    /\ log = CacheLog
    /\ prefs = DefaultPrefs
    /\ result = <<>>
    /\ history = <<>>
    /\ replica = EmptyDb
    /\ replicaResult = <<>>
    /\ candidates = <<>>
    /\ ranked = <<>>
    /\ InitSync
    /\ InitTasks
    /\ InitMore

Next ==
    \/ \E e \in log : Upsert(e)
    \/ \E m \in MessageInputs : UpsertMessage(m)
    \/ \E p \in Paths, c \in ChunkLists : UpsertDocumentChunks(p, c)
    \/ FtsTrigger
    \/ Commit
    \/ \E q \in Queries, c \in Identities : Search(q, c, MaxLimit)

Spec == Init /\ [][Next]_vars

----------------------------------------------------------------------------
(* Ingestion and search of memory records: every arrival order of a log *)

\* The whole write in one step: row, triggers, commit.
Applied(d, field, w) == RunTriggers(Staged(d, field, w)).staged

\* Sync applies one authoritative event through upsert.
Ingest(e) ==
    /\ tx = NoTx
    /\ e \in log
    /\ db' = Applied(db, "memories", upsert(db.memories, e))
    /\ result' = <<>>
    /\ history' = <<>>
    /\ replicaResult' = <<>>
    /\ conflicts' = <<>>
    /\ resolution' = <<>>
    /\ UNCHANGED <<tx, log, prefs, replica, candidates, ranked>>
    /\ UNCHANGED <<published, relay, config, suppressed, dropped, feed, taskVars, moreVars>>

InitSearch ==
    /\ db = EmptyDb
    /\ tx = NoTx
    /\ log \in ChainLogs
    /\ prefs \in PrefLists
    /\ result = <<>>
    /\ history = <<>>
    /\ replica = EmptyDb
    /\ replicaResult = <<>>
    /\ candidates = <<>>
    /\ ranked = <<>>
    /\ InitSync
    /\ InitTasks
    /\ InitMore

NextSearch ==
    \/ \E e \in log : Ingest(e)
    \/ \E q \in Queries, c \in Identities, l \in 1..MaxLimit : Search(q, c, l)
    \/ \E t \in Topics : GetHistory(t)

SpecSearch == InitSearch /\ [][NextSearch]_vars

----------------------------------------------------------------------------
(* Two cache instances fed from one log in their own orders *)

ReplicaIngest(e) ==
    /\ e \in log
    /\ replica' = Applied(replica, "memories", upsert(replica.memories, e))
    /\ result' = <<>>
    /\ replicaResult' = <<>>
    /\ UNCHANGED <<db, tx, log, prefs, history, candidates, ranked, syncVars, taskVars, moreVars>>

\* The same search sent to both instances once they hold the same records.
SearchBoth(query, caller, limit) ==
    /\ ReaderIdle
    /\ Range(db.memories) = Range(replica.memories)
    /\ result' = <<[query |-> query, caller |-> caller, limit |-> limit,
                    hits |-> search(db, prefs, query, caller, limit)]>>
    /\ replicaResult' = <<[query |-> query, caller |-> caller, limit |-> limit,
                           hits |-> search(replica, prefs, query, caller, limit)]>>
    /\ UNCHANGED <<db, tx, log, prefs, history, replica, candidates, ranked, syncVars, taskVars, moreVars>>

ReplicaLogs ==
    { ChainLog(Public, 1, Public, es) : es \in {"A", "B"} }

InitReplica ==
    /\ db = EmptyDb
    /\ tx = NoTx
    /\ log \in ReplicaLogs
    /\ prefs = DefaultPrefs
    /\ result = <<>>
    /\ history = <<>>
    /\ replica = EmptyDb
    /\ replicaResult = <<>>
    /\ candidates = <<>>
    /\ ranked = <<>>
    /\ InitSync
    /\ InitTasks
    /\ InitMore

NextReplica ==
    \/ \E e \in log : Ingest(e)
    \/ \E e \in log : ReplicaIngest(e)
    \/ \E q \in Queries, c \in Identities, l \in 1..MaxLimit : SearchBoth(q, c, l)

SpecReplica == InitReplica /\ [][NextReplica]_vars

----------------------------------------------------------------------------
(* rank_memories on arbitrary result lists *)

RankItems ==
    { [key |-> MemKey(id), source |-> src, tier |-> t, model |-> m,
       createdAt |-> at, text |-> {"x"}] :
        id \in {"i"}, src \in {"A", "B"}, t \in {Public, Group("g1")},
        m \in {Mistral7, Homebrew}, at \in {1, MaxTime} }

RankInputs == { [item |-> it, relevance |-> rel] : it \in RankItems, rel \in {5, 10} }

\* The i-th result handed in is the item with id i.
Numbered(results) ==
    [i \in 1..Len(results) |->
        [results[i] EXCEPT !.item.key = MemKey(i)]]

RankPrefLists ==
    { << NpubPref("A", 9), NpubPref("B", 5) >>,
      << NpubPref("A", 5), NpubPref("B", 5) >>,
      << GroupPref("g1", 9), NpubPref("A", 5) >>,
      << NpubPref("B", 10), GroupPref("g1", 5), NpubPref("B", 0) >>,
      << NpubPref("A", 0) >>,
      << >> }

Rank ==
    /\ ranked' = rank_memories(candidates, prefs)
    /\ UNCHANGED <<db, tx, log, prefs, result, history, replica, replicaResult, candidates, syncVars, taskVars, moreVars>>

InitRank ==
    /\ db = EmptyDb
    /\ tx = NoTx
    /\ log = {}
    /\ prefs \in RankPrefLists
    /\ result = <<>>
    /\ history = <<>>
    /\ replica = EmptyDb
    /\ replicaResult = <<>>
    /\ candidates \in { Numbered(c) : c \in UNION { [1..k -> RankInputs] : k \in 1..MaxCandidates } }
    /\ ranked = <<>>
    /\ InitSync
    /\ InitTasks
    /\ InitMore

NextRank == Rank

SpecRank == InitRank /\ [][NextRank]_vars

----------------------------------------------------------------------------
(* Properties of the cache *)

\* The index entries the rows of a cache call for: one per row, of its text.
RowEntries(d) ==
    {[key |-> MemKey(r.id), tokens |-> r.detail] : r \in Range(d.memories)}
    \cup {[key |-> MsgKey(m.event_id), tokens |-> m.content] : m \in Range(d.messages)}
    \cup {[key |-> DocKey(c.path, c.chunk_index), tokens |-> c.content] : c \in Range(d.docs)}

Hits == IF result = <<>> THEN <<>> ELSE result[1].hits

\* C1: in every state a reader can see, the index entry of every cached row
\* (memory record, message, document chunk) describes exactly the row's
\* current text, and a search response never pairs a row's text with a
\* relevance computed from another text of that row.
C1_IndexNeverStale ==
    /\ db.fts = RowEntries(db)
    /\ \A j \in 1..Len(Hits) :
        /\ [key |-> Hits[j].key, tokens |-> Hits[j].text] \in RowEntries(db)
        /\ Hits[j].relevance > 0
        /\ Hits[j].relevance =
              (Cardinality(Hits[j].text \cap result[1].query) * RelevanceScale)
                 \div Cardinality(result[1].query)

\* C1 witness: a writer has rewritten a chunk's text inside its transaction,
\* the index entry not yet, while a reader holds a response with that chunk.
C1_Witness ==
    /\ tx # NoTx
    /\ tx[1].op = "upsertDocumentChunks"
    /\ tx[1].pending # <<>>
    /\ Len(db.docs) = 1
    /\ Len(tx[1].staged.docs) = 1
    /\ tx[1].staged.docs[1].content # db.docs[1].content
    /\ tx[1].staged.fts # RowEntries(tx[1].staged)
    /\ \E j \in 1..Len(Hits) : Hits[j].key = DocKey(db.docs[1].path, 0)

\* The write of a transaction re-applies what the cache already holds.
AlreadyApplied(d, t) ==
    \/ t.op = "upsert" /\ t.arg \in Range(d.memories)
    \/ t.op = "upsertMessage" /\ t.arg \in Range(d.messages)
    \/ /\ t.op = "upsertDocumentChunks"
       /\ SelectRows(d.docs, {r \in Range(d.docs) : r.path = t.arg.path})
            = ChunkRows(t.arg.path, t.arg.chunks, 0)

UniqueKeys(d) ==
    /\ \A i, j \in 1..Len(d.memories) : d.memories[i].id = d.memories[j].id => i = j
    /\ \A i, j \in 1..Len(d.messages) :
          d.messages[i].event_id = d.messages[j].event_id => i = j
    /\ \A i, j \in 1..Len(d.docs) :
          (d.docs[i].path = d.docs[j].path /\ d.docs[i].chunk_index = d.docs[j].chunk_index)
             => i = j
    /\ \A e, f \in d.fts : e.key = f.key => e = f

\* C2: re-applying a record, message or chunk list the cache already holds
\* changes nothing (rows, their order and the index stay as they are), every
\* key is stored once and indexed once, and a search returns a key at most once.
C2_UpsertIdempotent ==
    /\ \A i \in 1..Len(tx) : AlreadyApplied(db, tx[i]) => RunTriggers(tx[i]).staged = db
    /\ UniqueKeys(db)
    /\ \A i, j \in 1..Len(Hits) : Hits[i].key = Hits[j].key => i = j

\* C2 witness: a stored record is upserted again, the transaction is ready to
\* commit, and a search that matches the record returns exactly one hit for it.
C2_Witness ==
    /\ tx # NoTx
    /\ tx[1].op = "upsert"
    /\ AlreadyApplied(db, tx[1])
    /\ tx[1].pending = <<>>
    /\ Cardinality({j \in 1..Len(Hits) : Hits[j].key = MemKey(tx[1].arg.id)}) = 1

----------------------------------------------------------------------------
(* Properties of search and history over ingested chains *)

CachedIds == {r.id : r \in Range(db.memories)}
ChainCached == {"r1", "r2", "r3"} \subseteq CachedIds

\* C3: a default search never returns a record that has a known successor in
\* the cache; once r1 <- r2 <- r3 are all cached, in whatever arrival order,
\* r3 is the only record of the chain a search returns.
C3_NoSupersededInSearch ==
    \A j \in 1..Len(Hits) :
        Hits[j].key.type = "memory" =>
            /\ ~\E s \in Range(db.memories) : s.supersedes = Hits[j].key.id
            /\ ChainCached => Hits[j].key.id \notin {"r1", "r2"}

\* C3 witness: the chain arrived newest first, all three versions match the
\* query, and the search returned r3 alone.
C3_Witness ==
    /\ ChainCached
    /\ db.memories[1].id = "r3"
    /\ result # <<>>
    /\ result[1].query = {"x"}
    /\ Len(Hits) = 1
    /\ Hits[1].key = MemKey("r3")

HistoryRecords == IF history = <<>> THEN <<>> ELSE history[1].records
HistoryIds == [i \in 1..Len(HistoryRecords) |-> HistoryRecords[i].id]

C5_SearchRespectsScope ==
    \A j \in 1..Len(Hits) :
        /\ Hits[j].tier.kind = "Private" => Hits[j].tier.scope = result[1].caller
        /\ Hits[j].tier.kind = "Group" => isMember(result[1].caller, Hits[j].tier.scope)

\* C5 witness: the cache holds a record private to B that matches the query
\* in full, another caller searches, gets results, and B's record is not one.
C5_Witness ==
    /\ \E r \in Range(db.memories) :
          /\ r.tier = Private("B")
          /\ result # <<>>
          /\ result[1].caller = "A"
          /\ r.detail = result[1].query
          /\ ~HasSuccessor(db.memories, r)
    /\ Len(Hits) > 0

----------------------------------------------------------------------------
(* Properties of the ranking *)

RankedPairs == {p \in (1..Len(ranked)) \X (1..Len(ranked)) : p[1] < p[2]}

SameKeys(a, b) ==
    /\ a.effectiveScore = b.effectiveScore
    /\ a.sourceRank = b.sourceRank
    /\ a.modelTier = b.modelTier
    /\ a.createdAt = b.createdAt

\* C6: rank_memories hands back the results it was given, each with
\* effectiveScore = relevance x trustWeight, in descending effectiveScore;
\* with preferences [(A, 0.9), (B, 0.5)] and equal relevance, A's comes first.
C6_EffectiveScoreDescending ==
    ranked # <<>> =>
        /\ {ranked[i].key : i \in 1..Len(ranked)}
              = {candidates[i].item.key : i \in 1..Len(candidates)}
        /\ Len(ranked) = Len(candidates)
        /\ \A i \in 1..Len(ranked) :
              ranked[i].effectiveScore = ranked[i].relevance * ranked[i].trustWeight
        /\ \A p \in RankedPairs : ranked[p[1]].effectiveScore >= ranked[p[2]].effectiveScore
        /\ ( /\ prefs = << NpubPref("A", 9), NpubPref("B", 5) >>
             /\ Len(ranked) = 2
             /\ ranked[1].relevance = ranked[2].relevance
             /\ {ranked[1].source, ranked[2].source} = {"A", "B"} )
           => ranked[1].source = "A"

\* C6 witness: B's record was handed in ahead of A's, equally relevant, under
\* [(A, 0.9), (B, 0.5)]; the ranked list has A's first.
C6_Witness ==
    /\ prefs = << NpubPref("A", 9), NpubPref("B", 5) >>
    /\ Len(candidates) = 2
    /\ candidates[1].item.source = "B"
    /\ candidates[2].item.source = "A"
    /\ candidates[1].relevance = candidates[2].relevance
    /\ ranked # <<>>
    /\ ranked[1].source = "A"
    /\ ranked[1].key = candidates[2].item.key

Unlisted(h) == SourceMatches(prefs, h.source) = {} /\ GroupMatches(prefs, h.tier) = {}

\* C7: among results of equal effectiveScore the lower sourceRank comes first
\* (no unlisted source ahead of a listed one), then the lower modelTier (no
\* unranked model ahead of a ranked one), then the newer createdAt.
C7_TieBreaks ==
    \A p \in RankedPairs :
        LET a == ranked[p[1]]
            b == ranked[p[2]]
        IN  a.effectiveScore = b.effectiveScore =>
              /\ a.sourceRank <= b.sourceRank
              /\ Unlisted(a) => Unlisted(b)
              /\ a.sourceRank = b.sourceRank =>
                    /\ a.modelTier <= b.modelTier
                    /\ a.modelTier > LowestTier => b.modelTier > LowestTier
                    /\ a.modelTier = b.modelTier => a.createdAt >= b.createdAt

\* C7 witness: two results that tie on effectiveScore, sourceRank and
\* modelTier were handed in older first; the ranked list has the newer first.
C7_Witness ==
    /\ Len(candidates) = 2
    /\ Len(ranked) = 2
    /\ ranked[1].effectiveScore = ranked[2].effectiveScore
    /\ ranked[1].effectiveScore > 0
    /\ ranked[1].sourceRank = ranked[2].sourceRank
    /\ ranked[1].modelTier = ranked[2].modelTier
    /\ ranked[1].createdAt > ranked[2].createdAt
    /\ ranked[1].key = candidates[2].item.key

C10_TrustWeightLookup ==
    \A n \in 1..Len(ranked) :
        LET h == ranked[n]
            bySource == {i \in 1..Len(prefs) : prefs[i].npub = h.source}
            byGroup == {i \in 1..Len(prefs) :
                           h.tier.kind = "Group" /\ prefs[i].group = h.tier.scope}
            Is(i) == h.trustWeight = prefs[i].trust /\ h.sourceRank = i
        IN  /\ bySource # {} => \E i \in bySource : Is(i) /\ \A k \in bySource : i <= k
            /\ (bySource = {} /\ byGroup # {}) =>
                  \E i \in byGroup : Is(i) /\ \A k \in byGroup : i <= k
            /\ (bySource = {} /\ byGroup = {}) =>
                  h.trustWeight = DefaultWeight /\ h.sourceRank > Len(prefs)

\* C10 witness: the list names the group ahead of the source; a result of that
\* source in that group takes the source's entry, an unlisted source in the
\* group takes the group's entry.
C10_Witness ==
    /\ prefs = << GroupPref("g1", 9), NpubPref("A", 5) >>
    /\ Len(ranked) = 2
    /\ \E i, j \in 1..2 :
          /\ ranked[i].source = "A" /\ ranked[i].tier = Group("g1")
          /\ ranked[i].trustWeight = 5 /\ ranked[i].sourceRank = 2
          /\ ranked[j].source = "B" /\ ranked[j].tier = Group("g1")
          /\ ranked[j].trustWeight = 9 /\ ranked[j].sourceRank = 1

----------------------------------------------------------------------------
(* Two caches holding the same records *)

ReplicaHits == IF replicaResult = <<>> THEN <<>> ELSE replicaResult[1].hits

RankKeys(h) == << h.effectiveScore, h.sourceRank, h.modelTier, h.createdAt >>

\* Every match of the query in the caller's scope, without the limit.
AllHits(d) ==
    search(d, prefs, result[1].query, result[1].caller,
           Len(d.memories) + Len(d.messages) + Len(d.docs))

NoFullTie(hits) ==
    \A i, j \in 1..Len(hits) : i # j => ~SameKeys(hits[i], hits[j])

----------------------------------------------------------------------------
(* Authoritative events (kind 30078) and their ingestion *)

\* The owner: the operator's identity, the only author of configuration.
Owner == "O"

\* The d tag: a namespaced key.
DTag(ns, kind, name) == [ns |-> ns, kind |-> kind, name |-> name]
MemoryTag(topic) == DTag("snow", "memory", topic)
ConfigTag(name) == DTag("snowclaw", "config", name)

\* The content string: JSON with a payload, or text that does not parse.
Json(payload) == [json |-> TRUE, payload |-> payload]
Garbage(text) == [json |-> FALSE, payload |-> text]

\* The value of a tier tag that is missing from the event.
NoTier == [kind |-> "none", scope |-> None]

Event(id, pubkey, d, tier, model, supersedes, createdAt, content) ==
    [id |-> id, pubkey |-> pubkey, d |-> d, tier |-> tier, model |-> model,
     supersedes |-> supersedes, createdAt |-> createdAt, content |-> content]

IsConfigTag(d) == d.ns = "snowclaw" /\ d.kind = "config"
IsMemoryTag(d) == d.ns = "snow" /\ d.kind = "memory"

\* Mutant: the payload is taken as it comes, parsed or not.
from_nostr_event_unchecked(ev) ==
    IF ~IsMemoryTag(ev.d) \/ ev.tier \notin MemoryTier
    THEN <<>>
    ELSE << Memory(ev.id, ev.tier, ev.d.name, ev.pubkey, ev.model, ev.supersedes,
                   ev.createdAt, ev.content.payload) >>

\* Memory::from_nostr_event: the record of a well-formed event, or nothing.
from_nostr_event(ev) ==
    IF ~IsMemoryTag(ev.d) \/ ev.tier \notin MemoryTier \/ ~ev.content.json
    THEN <<>>
    ELSE << Memory(ev.id, ev.tier, ev.d.name, ev.pubkey, ev.model, ev.supersedes,
                   ev.createdAt, ev.content.payload) >>

\* Following supersedes from id through the cached records reaches target.
RECURSIVE Reaches(_, _, _, _)
Reaches(memories, id, target, fuel) ==
    IF id = target THEN TRUE
    ELSE IF fuel = 0 \/ MemoryAt(memories, id) = 0 THEN FALSE
    ELSE Reaches(memories, memories[MemoryAt(memories, id)].supersedes, target, fuel - 1)

\* Mutant: only a record that supersedes itself is taken for a cycle.
ClosesCycleSelfOnly(memories, record) == record.supersedes = record.id

\* Accepting the record would close a cycle of supersedes links.
ClosesCycle(memories, record) ==
    /\ record.supersedes # None
    /\ Reaches(Append(memories, record), record.supersedes, record.id, Len(memories) + 1)

\* Mutant: the author of a configuration event is not checked.
config_event_any_author(cfg, ev) ==
    IF ev.content.json THEN [cfg EXCEPT ![ev.d.name] = ev.content.payload] ELSE cfg

\* Config event validation: applied only when the owner wrote it.
config_event(cfg, ev) ==
    IF ev.pubkey # Owner THEN cfg
    ELSE IF ev.content.json THEN [cfg EXCEPT ![ev.d.name] = ev.content.payload] ELSE cfg

\* An owner-scoped key is written by its owner only.
OwnerScoped(ev) == ev.tier.kind = "Private" => ev.pubkey = ev.tier.scope

\* The cache and configuration after ingestion has handled one event.
ingest_event(st, ev) ==
    IF IsConfigTag(ev.d)
    THEN IF ev.d.name \in ConfigKeys
         THEN [st EXCEPT !.config = config_event(st.config, ev),
                         !.dropped = IF ev.pubkey = Owner /\ ev.content.json THEN @ ELSE @ + 1]
         ELSE [st EXCEPT !.dropped = @ + 1]
    ELSE LET parsed == from_nostr_event(ev)
         IN  IF parsed = <<>> \/ ~OwnerScoped(ev) \/ ClosesCycle(st.db.memories, parsed[1])
             THEN [st EXCEPT !.dropped = @ + 1]
             ELSE [st EXCEPT !.db = Applied(st.db, "memories", upsert(st.db.memories, parsed[1]))]

\* The transport is replace-by-key: per author and d tag it keeps the newest event.
SameAddress(a, b) == a.pubkey = b.pubkey /\ a.d = b.d

Retained(held, ev) ==
    IF \E h \in held : SameAddress(h, ev) /\ h.createdAt > ev.createdAt
    THEN held
    ELSE {h \in held : ~SameAddress(h, ev)} \cup {ev}

----------------------------------------------------------------------------
(* Conflicts: listing, automatic resolution, explicit resolution *)

\* Three sources write topic t1; B's record has a second version, and C's
\* record is private to C.
ConflictLog(detailB1, detailB2) ==
    { Memory("a1", Public, "t1", "A", Opus, None, 1, {"x"}),
      Memory("b1", Public, "t1", "B", Opus, None, 1, detailB1),
      Memory("b2", Public, "t1", "B", Opus, "b1", 2, detailB2),
      Memory("c1", Private("C"), "t1", "C", Opus, None, 2, {"y"}) }

ConflictLogs ==
    { ConflictLog(d1, d2) : d1 \in {{"x"}, {"x", Blank}, {"y"}}, d2 \in {{"x"}, {"y"}} }

\* The operator and an agent outside the group look at the conflicts.
ConflictCallers == {Self, "C"}

ConflictPrefLists == {DefaultPrefs, <<>>}

RECURSIVE WriteAll(_, _)
WriteAll(d, records) ==
    IF records = <<>> THEN d
    ELSE WriteAll(Applied(d, "memories", upsert(d.memories, records[1])), Tail(records))

ListConflicts(caller) ==
    /\ tx = NoTx
    /\ conflicts = <<>>
    /\ conflicts' = << [caller |-> caller, groups |-> listConflicts(db, caller)] >>
    /\ UNCHANGED <<db, tx, log, prefs, result, history, replica, replicaResult, candidates, ranked>>
    /\ UNCHANGED <<resolution, published, relay, config, suppressed, dropped, feed, taskVars, moreVars>>

\* The automatic resolution of one listed conflict, its members in any order.
ResolveConflict(caller, g, members) ==
    /\ tx = NoTx
    /\ g \in listConflicts(db, caller)
    /\ members \in Orderings(g)
    /\ LET r == resolveConflict(members, prefs)
       IN  /\ resolution' = << r >>
           /\ db' = WriteAll(db, r.writes)
           /\ published' = published \o r.writes
    /\ UNCHANGED <<tx, log, prefs, result, history, replica, replicaResult, candidates, ranked>>
    /\ UNCHANGED <<conflicts, relay, config, suppressed, dropped, feed, taskVars, moreVars>>

\* The record an explicit resolution publishes: the operator's own, carrying
\* the chosen detail and superseding one member.
ResolutionRecord(target, detail) ==
    Memory("n1", target.tier, target.topic, Self, Opus, target.id, MaxTime, detail)

MergedDetail(g) == UNION {m.detail : m \in g}

\* The details an explicit resolution may carry when it supersedes target:
\* another member's (pick A, pick B) or the merge of all.
ResolutionDetails(g, target) == {m.detail : m \in g \ {target}} \cup {MergedDetail(g)}

\* The operator resolves a listed conflict: pick one member's detail or merge.
ExplicitResolve(g, target, detail) ==
    /\ tx = NoTx
    /\ g \in listConflicts(db, Self)
    /\ target \in g
    /\ detail \in ResolutionDetails(g, target)
    /\ \A r \in Range(db.memories) : r.id # "n1"
    /\ LET n == ResolutionRecord(target, detail)
       IN  /\ db' = WriteAll(db, << n >>)
           /\ published' = Append(published, n)
           /\ resolution' = << [kind |-> "explicit", group |-> g, members |-> <<>>,
                                 winner |-> n, writes |-> << n >>] >>
    /\ conflicts' = <<>>
    /\ result' = <<>>
    /\ history' = <<>>
    /\ UNCHANGED <<tx, log, prefs, replica, replicaResult, candidates, ranked>>
    /\ UNCHANGED <<relay, config, suppressed, dropped, feed, taskVars, moreVars>>

InitConflict ==
    /\ db = EmptyDb
    /\ tx = NoTx
    /\ log \in ConflictLogs
    /\ prefs \in ConflictPrefLists
    /\ result = <<>>
    /\ history = <<>>
    /\ replica = EmptyDb
    /\ replicaResult = <<>>
    /\ candidates = <<>>
    /\ ranked = <<>>
    /\ InitSync
    /\ InitTasks
    /\ InitMore

NextConflict ==
    \/ \E e \in log : Ingest(e)
    \/ \E c \in ConflictCallers : ListConflicts(c)
    \/ \E g \in listConflicts(db, Self) : \E o \in Orderings(g) : ResolveConflict(Self, g, o)
    \/ \E g \in listConflicts(db, Self) : \E t \in g :
          \E d \in ResolutionDetails(g, t) : ExplicitResolve(g, t, d)
    \/ Search({"x"}, Self, MaxLimit)

SpecConflict == InitConflict /\ [][NextConflict]_vars

----------------------------------------------------------------------------
(* Sync: the feed delivers events in any order; cold start replays the transport *)

\* A's chain on topic t1: three versions under one address.
ChainEvents ==
    { Event("r1", "A", MemoryTag("t1"), Public, Opus, None, 1, Json({"x"})),
      Event("r2", "A", MemoryTag("t1"), Public, Opus, "r1", 2, Json({"y"})),
      Event("r3", "A", MemoryTag("t1"), Public, Opus, "r2", MaxTime, Json({"x"})) }

\* B's malformed events: a required tag missing, a d tag outside the
\* namespace, a payload that does not parse.
MalformedEvents ==
    { Event("m1", "B", MemoryTag("t1"), NoTier, Opus, "r1", 2, Json({"y"})),
      Event("m1", "B", DTag("other", "memory", "t1"), Public, Opus, "r1", 2, Json({"y"})),
      Event("m1", "B", MemoryTag("t1"), Public, Opus, "r1", 2, Garbage({"y"})) }

\* Configuration written by the owner and by somebody else, and a record
\* B writes under A's private key.
ConfigEvents ==
    { Event("c1", Owner, ConfigTag("global"), NoTier, NoModel, None, 1, Json({"all"})),
      Event("c2", "B", ConfigTag("global"), NoTier, NoModel, None, 2, Json({"none"})),
      Event("p1", "B", MemoryTag("t1"), Private("A"), Opus, None, 2, Json({"y"})) }

\* Records whose supersedes links would close a cycle: a pair and a loner.
CycleEvents ==
    { Event("k1", "B", MemoryTag("t2"), Public, Opus, "k2", 1, Json({"x"})),
      Event("k2", "C", MemoryTag("t2"), Public, Opus, "k1", 2, Json({"y"})),
      Event("s1", "B", MemoryTag("t1"), Public, Opus, "s1", 1, Json({"x"})) }

\* B supersedes A's r2 with a record stamped earlier than r2: created_at
\* is the author's own clock reading.
BackdatedEvents ==
    { Event("d1", "B", MemoryTag("t1"), Public, Gpt41, "r2", 1, Json({"x", "y"})) }

SyncLogs ==
    { ChainEvents \cup {m} \cup ConfigEvents : m \in MalformedEvents }
    \cup { {e \in ChainEvents : e.id # "r3"} \cup CycleEvents }
    \cup { {e \in ChainEvents : e.id # "r3"} \cup BackdatedEvents }

\* The feed delivers one event: the transport retains it by address and
\* ingestion handles it.
Observe(ev) ==
    /\ tx = NoTx
    /\ ev \in feed
    /\ feed' = feed \ {ev}
    /\ relay' = Retained(relay, ev)
    /\ LET st == ingest_event([db |-> db, config |-> config, dropped |-> dropped], ev)
       IN  /\ db' = st.db
           /\ config' = st.config
           /\ dropped' = st.dropped
    /\ replica' = EmptyDb
    /\ result' = <<>>
    /\ history' = <<>>
    /\ UNCHANGED <<tx, log, prefs, replicaResult, candidates, ranked>>
    /\ UNCHANGED <<conflicts, resolution, published, suppressed, taskVars, moreVars>>

RECURSIVE ingest_all(_, _)
ingest_all(st, events) ==
    IF events = <<>> THEN st ELSE ingest_all(ingest_event(st, events[1]), Tail(events))

\* Cold start: a cache populated from empty with what the transport holds.
Replay(events) ==
    /\ tx = NoTx
    /\ replica = EmptyDb
    /\ events \in Orderings(relay)
    /\ replica' = ingest_all([db |-> EmptyDb, config |-> DefaultConfig, dropped |-> 0], events).db
    /\ UNCHANGED <<db, tx, log, prefs, result, history, replicaResult, candidates, ranked>>
    /\ UNCHANGED <<syncVars, taskVars, moreVars>>

\* The operator deletes a record: it is suppressed in this cache only.
Suppress(id) ==
    /\ tx = NoTx
    /\ suppressed = {}
    /\ MemoryAt(db.memories, id) # 0
    /\ suppressed' = {id}
    /\ UNCHANGED <<db, tx, log, prefs, result, history, replica, replicaResult, candidates, ranked>>
    /\ UNCHANGED <<conflicts, resolution, published, relay, config, dropped, feed, taskVars, moreVars>>

InitSyncing ==
    /\ db = EmptyDb
    /\ tx = NoTx
    /\ log \in SyncLogs
    /\ prefs = DefaultPrefs
    /\ result = <<>>
    /\ history = <<>>
    /\ replica = EmptyDb
    /\ replicaResult = <<>>
    /\ candidates = <<>>
    /\ ranked = <<>>
    /\ conflicts = <<>>
    /\ resolution = <<>>
    /\ published = <<>>
    /\ relay = {}
    /\ config = DefaultConfig
    /\ suppressed = {}
    /\ dropped = 0
    /\ feed = log
    /\ InitTasks
    /\ InitMore

NextSync ==
    \/ \E ev \in feed : Observe(ev)
    \/ \E o \in Orderings(relay) : Replay(o)
    \/ \E r \in Range(db.memories) : Suppress(r.id)
    \/ \E t \in Topics : GetHistory(t)

SpecSync == InitSyncing /\ [][NextSync]_vars

----------------------------------------------------------------------------
(* Selective indexing policy: which incoming messages are stored *)

MaxMessages == 1    \* rows the message index holds

\* enum IndexDecision
Index == "Index"
CacheOnly == "CacheOnly"
Skip == "Skip"
IndexDecision == {Index, CacheOnly, Skip}

\* index_messages_min_length: 2 words stand for the default of 20 characters
MinLength == 2

ItemKinds == {"message", "reaction", "repost", "dm"}

\* An incoming item; its id is derived from what it holds.
IndexableMessage(kind, sender, mention, content) ==
    [id |-> <<kind, sender, mention, content>>, kind |-> kind, sender |-> sender,
     mention |-> mention, content |-> content]

Length(item) == Cardinality(item.content)

\* The context handed to the policy: the configuration and the known senders.
PolicyContext(knownSenders) == [min_length |-> MinLength, known |-> knownSenders]

\* Mutant: everything that is no reaction and no repost is kept.
should_index_message_keep_all(item, ctx) ==
    IF item.kind = "dm" \/ item.mention THEN Index
    ELSE IF item.kind \in {"reaction", "repost"} THEN Skip
    ELSE CacheOnly

\* Mutant: an item the cache already holds is skipped.
should_index_message_dedup(item, ctx) ==
    IF MessageAt(db.messages, item.id) # 0 THEN Skip
    ELSE IF item.kind = "dm" \/ item.mention THEN Index
    ELSE IF item.kind \in {"reaction", "repost"} THEN Skip
    ELSE IF item.sender = Self THEN Skip
    ELSE IF Length(item) < ctx.min_length THEN Skip
    ELSE IF item.sender \in ctx.known THEN CacheOnly
    ELSE Skip

\* Mutant: reactions and reposts are skipped before mentions are looked at.
should_index_message_skip_first(item, ctx) ==
    IF item.kind \in {"reaction", "repost"} THEN Skip
    ELSE IF item.kind = "dm" \/ item.mention THEN Index
    ELSE IF item.sender = Self THEN Skip
    ELSE IF Length(item) < ctx.min_length THEN Skip
    ELSE IF item.sender \in ctx.known THEN CacheOnly
    ELSE Skip

\* should_index_message: always index mentions of the bot and DMs; skip
\* reactions, reposts, the bot's own messages and very short messages; keep
\* the rest from known senders for keyword search only.
should_index_message(item, ctx) ==
    IF item.kind = "dm" \/ item.mention THEN Index
    ELSE IF item.kind \in {"reaction", "repost"} THEN Skip
    ELSE IF item.sender = Self THEN Skip
    ELSE IF Length(item) < ctx.min_length THEN Skip
    ELSE IF item.sender \in ctx.known THEN CacheOnly
    ELSE Skip

\* Every combination of kind, sender, mention flag and length.
PolicyItems ==
    { IndexableMessage(k, s, m, c) :
        k \in ItemKinds, s \in Identities, m \in BOOLEAN, c \in {{"x"}, {"x", "y"}} }

\* The message_index row of an admitted item: a DM has no group.
StoredMessage(item) ==
    IndexedMessage(item.id, item.sender, IF item.kind = "dm" THEN None ELSE "g1",
                   item.content, 1)

\* An item arrives: the policy classifies it, index_message stores it
\* unless it is skipped, with an embedding when it is fully indexed.
Receive(item) ==
    /\ tx = NoTx
    /\ LET ctx == PolicyContext(known)
           outcome == should_index_message(item, ctx)
       IN  /\ decision' = <<[item |-> item, context |-> ctx, outcome |-> outcome]>>
           /\ IF outcome = Skip THEN UNCHANGED <<db, embedded>>
              ELSE /\ MessageAt(db.messages, item.id) # 0 \/ Len(db.messages) < MaxMessages
                   /\ db' = Applied(db, "messages",
                                    upsertMessage(db.messages, StoredMessage(item)))
                   /\ embedded' = IF outcome = Index THEN embedded \cup {item.id}
                                  ELSE embedded \ {item.id}
    /\ result' = <<>>
    /\ UNCHANGED <<tx, log, prefs, history, replica, replicaResult, candidates, ranked, syncVars>>
    /\ UNCHANGED <<known, files, sweep, remote, pending, answer, writers, moreVars>>

\* The social memory creates a sender's profile: the sender is known from now on.
EnsureNpub(sender) ==
    /\ sender \notin known
    /\ known' = known \cup {sender}
    /\ UNCHANGED <<db, tx, log, prefs, result, history, replica, replicaResult, candidates, ranked, syncVars>>
    /\ UNCHANGED <<decision, embedded, files, sweep, remote, pending, answer, writers, moreVars>>

\* An exact-phrase search on the content of the item classified last.
PhraseSearch ==
    /\ decision # <<>>
    /\ Search(decision[1].item.content, Self, MaxLimit)

InitPolicy ==
    /\ db = EmptyDb
    /\ tx = NoTx
    /\ log = {}
    /\ prefs = DefaultPrefs
    /\ result = <<>>
    /\ history = <<>>
    /\ replica = EmptyDb
    /\ replicaResult = <<>>
    /\ candidates = <<>>
    /\ ranked = <<>>
    /\ InitSync
    /\ known = {"B"}
    /\ decision = <<>>
    /\ embedded = {}
    /\ files = <<>>
    /\ sweep = <<>>
    /\ remote = <<>>
    /\ pending = <<>>
    /\ answer = <<>>
    /\ writers = <<>>
    /\ InitMore

NextPolicy ==
    \/ \E item \in PolicyItems : Receive(item)
    \/ \E s \in Identities : EnsureNpub(s)
    \/ PhraseSearch

SpecPolicy == InitPolicy /\ [][NextPolicy]_vars

----------------------------------------------------------------------------
(* File indexing: the periodic sweep over the indexed paths *)

IndexedPaths == {"p1", "p2"}

\* A file under an indexed path: absent, or present with its chunks.
NoFile == [exists |-> FALSE, chunks |-> <<>>]
File(chunks) == [exists |-> TRUE, chunks |-> chunks]

\* p1 is a file that is rewritten with any content, p2 a file of one
\* chunk that comes and goes.
FileStates(path) ==
    {NoFile} \cup {File(c) : c \in IF path = "p1" THEN ChunkLists \ {<<>>} ELSE {<<{"x"}>>}}

DocsOf(docs, path) == SelectRows(docs, {r \in Range(docs) : r.path = path})

\* Mutant: the rows of a vanished file stay.
unindex_file_keep(docs, path) == Written(docs, <<>>)

\* unindex_file(path): remove a file's units, rows and index entries
unindex_file(docs, path) ==
    Written(SelectRows(docs, {r \in Range(docs) : r.path # path}),
            TriggerAll(DocsOf(docs, path), "delete"))

\* index_file(path): chunk and hash what was read, store what changed;
\* a path without a file is removed from the index.
index_file(docs, path, file) ==
    IF file.exists THEN upsertDocumentChunks(docs, path, file.chunks)
    ELSE unindex_file(docs, path)

\* The sweep's position, and per visited path the file it read and the
\* units it found stored.
IdleSweep ==
    [phase |-> "idle", todo |-> {}, seen |-> [p \in IndexedPaths |-> NoFile],
     had |-> [p \in IndexedPaths |-> <<>>]]

\* Somebody writes, rewrites or removes a file; a sweep may be under way.
EditFile(path, file) ==
    /\ files[path] # file
    /\ files' = [files EXCEPT ![path] = file]
    /\ UNCHANGED <<db, tx, log, prefs, result, history, replica, replicaResult, candidates, ranked, syncVars>>
    /\ UNCHANGED <<known, decision, embedded, sweep, remote, pending, answer, writers, moreVars>>

\* The timer fires: the sweep starts over all indexed paths.
SweepStart ==
    /\ sweep.phase # "running"
    /\ tx = NoTx
    /\ sweep' = [IdleSweep EXCEPT !.phase = "running", !.todo = IndexedPaths]
    /\ UNCHANGED <<db, tx, log, prefs, result, history, replica, replicaResult, candidates, ranked, syncVars>>
    /\ UNCHANGED <<known, decision, embedded, files, remote, pending, answer, writers, moreVars>>

\* One unit of the sweep: the file is read and its write is staged in a
\* transaction of its own; an unchanged file stages nothing.
SweepUnit(path) ==
    /\ sweep.phase = "running"
    /\ path \in sweep.todo
    /\ tx = NoTx
    /\ LET w == index_file(db.docs, path, files[path])
       IN  tx' = IF w.table = db.docs /\ w.ops = <<>> THEN NoTx
                 ELSE <<Begin("index_file", path, db, "docs", w)>>
    /\ sweep' = [sweep EXCEPT !.todo = @ \ {path}, !.seen[path] = files[path],
                              !.had[path] = DocsOf(db.docs, path)]
    /\ UNCHANGED <<db, log, prefs, result, history, replica, replicaResult, candidates, ranked, syncVars>>
    /\ UNCHANGED <<known, decision, embedded, files, remote, pending, answer, writers, moreVars>>

\* Mutant: what the cancelled transaction had staged is published.
CancelledKeepsStaged(d, t) == IF t = NoTx THEN d ELSE t[1].staged

\* The cache a cancelled sweep leaves: the transaction in flight is rolled back.
Cancelled(d, t) == d

\* The sweep is cancelled, at any point between or inside its units.
SweepCancel ==
    /\ sweep.phase = "running"
    /\ db' = Cancelled(db, tx)
    /\ tx' = NoTx
    /\ sweep' = [sweep EXCEPT !.phase = "cancelled"]
    /\ UNCHANGED <<log, prefs, result, history, replica, replicaResult, candidates, ranked, syncVars>>
    /\ UNCHANGED <<known, decision, embedded, files, remote, pending, answer, writers, moreVars>>

\* The sweep has visited every path and its last transaction is committed.
SweepFinish ==
    /\ sweep.phase = "running"
    /\ sweep.todo = {}
    /\ tx = NoTx
    /\ sweep' = [sweep EXCEPT !.phase = "done"]
    /\ UNCHANGED <<db, tx, log, prefs, result, history, replica, replicaResult, candidates, ranked, syncVars>>
    /\ UNCHANGED <<known, decision, embedded, files, remote, pending, answer, writers, moreVars>>

InitSweep ==
    /\ db = EmptyDb
    /\ tx = NoTx
    /\ log = {}
    /\ prefs = DefaultPrefs
    /\ result = <<>>
    /\ history = <<>>
    /\ replica = EmptyDb
    /\ replicaResult = <<>>
    /\ candidates = <<>>
    /\ ranked = <<>>
    /\ InitSync
    /\ known = {}
    /\ decision = <<>>
    /\ embedded = {}
    /\ files = [p \in IndexedPaths |-> NoFile]
    /\ sweep = IdleSweep
    /\ remote = <<>>
    /\ pending = <<>>
    /\ answer = <<>>
    /\ writers = <<>>
    /\ InitMore

NextSweep ==
    \/ \E p \in IndexedPaths : \E f \in FileStates(p) : EditFile(p, f)
    \/ SweepStart
    \/ \E p \in IndexedPaths : SweepUnit(p)
    \/ FtsTrigger
    \/ Commit
    \/ SweepCancel
    \/ SweepFinish

SpecSweep == InitSweep /\ [][NextSweep]_vars

----------------------------------------------------------------------------
(* Remote sync tasks and the search that waits for them *)

SyncTimeout == 2    \* timer ticks a search waits for a sync

Sources == {"s1", "s2"}
Callers == {"A", "B"}

\* What each remote source has to deliver.
Holdings(source) ==
    IF source = "s1" THEN << Memory("r1", Public, "t1", "B", Gpt41, None, 1, {"x"}) >>
    ELSE << Memory("r2", Public, "t1", "A", Opus, "r1", MaxTime, {"x", "y"}) >>

\* The sync task of a source: the network operations in flight and the
\* callers that wait for their result.
NoTask == [running |-> 0, waiters |-> {}]

\* Mutant: every request starts a network operation of its own.
request_sync_duplicate(task, who) ==
    [running |-> task.running + 1, waiters |-> task.waiters \cup who]

\* A sync request: it starts the source's task, or joins the one in flight.
request_sync(task, who) ==
    IF task.running > 0 THEN [task EXCEPT !.waiters = @ \cup who]
    ELSE [running |-> 1, waiters |-> who]

\* Mutant: the wait ends only when the source has answered.
TimedOutNever(wait) == FALSE

\* The bounded timeout of a sync has elapsed.
TimedOut(wait) == wait.timer >= SyncTimeout

\* The response of a search: the cache snapshot it ran on, whether that
\* may be stale, and the error reported, if any.
Response(d, wait, caller, stale) ==
    [query |-> wait.query, caller |-> caller, cache |-> d, stale |-> stale, error |-> None]

\* The hits a response carries.
HitsOf(response) ==
    search(response.cache, prefs, response.query, response.caller, MaxLimit)

\* A caller searches; the search asks for a sync of one source and waits.
SyncedSearch(caller, source) ==
    /\ pending[caller] = <<>>
    /\ answer[caller] = <<>>
    /\ remote' = [remote EXCEPT ![source] = request_sync(@, {caller})]
    /\ pending' = [pending EXCEPT ![caller] = <<[query |-> {"x"}, source |-> source, timer |-> 0]>>]
    /\ UNCHANGED <<db, tx, log, prefs, result, history, replica, replicaResult, candidates, ranked, syncVars>>
    /\ UNCHANGED <<known, decision, embedded, files, sweep, answer, writers, moreVars>>

\* The periodic sync asks for a source; nobody waits for it.
BackgroundSync(source) ==
    /\ remote' = [remote EXCEPT ![source] = request_sync(@, {})]
    /\ UNCHANGED <<db, tx, log, prefs, result, history, replica, replicaResult, candidates, ranked, syncVars>>
    /\ UNCHANGED <<known, decision, embedded, files, sweep, pending, answer, writers, moreVars>>

\* The timer of a waiting search advances.
Tick(caller) ==
    /\ pending[caller] # <<>>
    /\ pending[caller][1].timer < SyncTimeout
    /\ pending' = [pending EXCEPT ![caller] = <<[@[1] EXCEPT !.timer = @ + 1]>>]
    /\ UNCHANGED <<db, tx, log, prefs, result, history, replica, replicaResult, candidates, ranked, syncVars>>
    /\ UNCHANGED <<known, decision, embedded, files, sweep, remote, answer, writers, moreVars>>

\* SyncTimeout: the search stops waiting and answers from the cache, flagged
\* stale; the task stays in flight.
Timeout(caller) ==
    /\ pending[caller] # <<>>
    /\ TimedOut(pending[caller][1])
    /\ answer' = [answer EXCEPT ![caller] = <<Response(db, pending[caller][1], caller, TRUE)>>]
    /\ pending' = [pending EXCEPT ![caller] = <<>>]
    /\ remote' = [remote EXCEPT ![pending[caller][1].source].waiters = @ \ {caller}]
    /\ UNCHANGED <<db, tx, log, prefs, result, history, replica, replicaResult, candidates, ranked, syncVars>>
    /\ UNCHANGED <<known, decision, embedded, files, sweep, writers, moreVars>>

\* The source answers: its events are ingested and every waiting search
\* answers from the cache as it is now.
Complete(source) ==
    /\ tx = NoTx
    /\ remote[source].running > 0
    /\ db' = WriteAll(db, Holdings(source))
    /\ remote' = [remote EXCEPT ![source] = [running |-> @.running - 1, waiters |-> {}]]
    /\ answer' = [c \in Callers |->
                    IF c \in remote[source].waiters
                    THEN <<Response(db', pending[c][1], c, FALSE)>> ELSE answer[c]]
    /\ pending' = [c \in Callers |-> IF c \in remote[source].waiters THEN <<>> ELSE pending[c]]
    /\ UNCHANGED <<tx, log, prefs, result, history, replica, replicaResult, candidates, ranked, syncVars>>
    /\ UNCHANGED <<known, decision, embedded, files, sweep, writers, moreVars>>

\* The caller takes the response.
TakeAnswer(caller) ==
    /\ answer[caller] # <<>>
    /\ answer' = [answer EXCEPT ![caller] = <<>>]
    /\ UNCHANGED <<db, tx, log, prefs, result, history, replica, replicaResult, candidates, ranked, syncVars>>
    /\ UNCHANGED <<known, decision, embedded, files, sweep, remote, pending, writers, moreVars>>

InitRemote ==
    /\ db = EmptyDb
    /\ tx = NoTx
    /\ log = {}
    /\ prefs = DefaultPrefs
    /\ result = <<>>
    /\ history = <<>>
    /\ replica = EmptyDb
    /\ replicaResult = <<>>
    /\ candidates = <<>>
    /\ ranked = <<>>
    /\ InitSync
    /\ known = {}
    /\ decision = <<>>
    /\ embedded = {}
    /\ files = <<>>
    /\ sweep = <<>>
    /\ remote = [s \in Sources |-> NoTask]
    /\ pending = [c \in Callers |-> <<>>]
    /\ answer = [c \in Callers |-> <<>>]
    /\ writers = <<>>
    /\ InitMore

NextRemote ==
    \/ \E c \in Callers, s \in Sources : SyncedSearch(c, s)
    \/ \E s \in Sources : BackgroundSync(s)
    \/ \E c \in Callers : Tick(c)
    \/ \E c \in Callers : Timeout(c)
    \/ \E s \in Sources : Complete(s)
    \/ \E c \in Callers : TakeAnswer(c)

SpecRemote == InitRemote /\ [][NextRemote]_vars

\* The runtime drives the timers: a waiting search's timer advances and
\* fires.  A remote source is under no obligation to answer.
SpecRemoteFair ==
    SpecRemote /\ \A c \in Callers : WF_vars(Tick(c)) /\ WF_vars(Timeout(c))

----------------------------------------------------------------------------
(* Concurrent writers: ingestion, the indexing sweep and local authoring *)

WriterNames == {"ingestion", "sweep", "authoring"}

\* A cache write a writer has been asked to do.
Job(op, arg) == [op |-> op, arg |-> arg]

\* The writes at hand: two versions of topic t1, two texts of message m1,
\* two contents of file p1.
WriteJobs ==
    { Job("upsert", Memory("r1", Public, "t1", "B", Gpt41, None, 1, {"x"})),
      Job("upsert", Memory("r2", Public, "t1", "A", Opus, "r1", MaxTime, {"y"})) }
    \cup { Job("upsertMessage", m) : m \in MessageInputs }
    \cup { Job("upsertDocumentChunks", [path |-> "p1", chunks |-> <<c>>]) : c \in {{"x"}, {"y"}} }

\* The table a job writes.
JobField(job) ==
    CASE job.op = "upsert" -> "memories"
      [] job.op = "upsertMessage" -> "messages"
      [] job.op = "upsertDocumentChunks" -> "docs"

\* The row write of a job on the cache it reads.
JobWrite(d, job) ==
    CASE job.op = "upsert" -> upsert(d.memories, job.arg)
      [] job.op = "upsertMessage" -> upsertMessage(d.messages, job.arg)
      [] job.op = "upsertDocumentChunks" ->
            upsertDocumentChunks(d.docs, job.arg.path, job.arg.chunks)

Writer(pc, job, t) == [pc |-> pc, job |-> job, tx |-> t]

\* Mutant: a writer is admitted while another one writes.
AdmitsAlways(ws, w) == TRUE

\* The coordinator: the connection is behind one lock, so a writer is
\* admitted when no other writer holds it.
Admits(ws, w) == \A v \in WriterNames \ {w} : ws[v].pc # "writing"

\* The writer takes the lock, reads the cache and stages its row write.
WriterBegin(w) ==
    /\ writers[w].pc = "ready"
    /\ Admits(writers, w)
    /\ LET job == writers[w].job
       IN  writers' = [writers EXCEPT ![w] =
                          Writer("writing", job,
                                 <<Begin(job.op, job.arg, db, JobField(job), JobWrite(db, job))>>)]
    /\ UNCHANGED <<db, tx, log, prefs, result, history, replica, replicaResult, candidates, ranked, syncVars>>
    /\ UNCHANGED <<known, decision, embedded, files, sweep, remote, pending, answer, moreVars>>

\* The triggers of the staged rows run inside the writer's transaction.
WriterTrigger(w) ==
    /\ writers[w].pc = "writing"
    /\ writers[w].tx[1].pending # <<>>
    /\ writers' = [writers EXCEPT ![w].tx = <<RunTriggers(@[1])>>]
    /\ UNCHANGED <<db, tx, log, prefs, result, history, replica, replicaResult, candidates, ranked, syncVars>>
    /\ UNCHANGED <<known, decision, embedded, files, sweep, remote, pending, answer, moreVars>>

\* The writer commits what it staged and releases the lock.
WriterCommit(w) ==
    /\ writers[w].pc = "writing"
    /\ writers[w].tx[1].pending = <<>>
    /\ db' = writers[w].tx[1].staged
    /\ writers' = [writers EXCEPT ![w] = Writer("done", @.job, NoTx)]
    /\ result' = <<>>
    /\ history' = <<>>
    /\ UNCHANGED <<tx, log, prefs, replica, replicaResult, candidates, ranked, syncVars>>
    /\ UNCHANGED <<known, decision, embedded, files, sweep, remote, pending, answer, moreVars>>

InitWriters ==
    /\ db = EmptyDb
    /\ tx = NoTx
    /\ log = {}
    /\ prefs = DefaultPrefs
    /\ result = <<>>
    /\ history = <<>>
    /\ replica = EmptyDb
    /\ replicaResult = <<>>
    /\ candidates = <<>>
    /\ ranked = <<>>
    /\ InitSync
    /\ known = {}
    /\ decision = <<>>
    /\ embedded = {}
    /\ files = <<>>
    /\ sweep = <<>>
    /\ remote = <<>>
    /\ pending = <<>>
    /\ answer = <<>>
    /\ writers \in [WriterNames -> {Writer("ready", j, NoTx) : j \in WriteJobs}]
    /\ InitMore

NextWriters ==
    \/ \E w \in WriterNames : WriterBegin(w)
    \/ \E w \in WriterNames : WriterTrigger(w)
    \/ \E w \in WriterNames : WriterCommit(w)
    \/ \E q \in Queries : Search(q, Self, MaxLimit)

SpecWriters == InitWriters /\ [][NextWriters]_vars

----------------------------------------------------------------------------
(* Properties of conflict detection and resolution *)

Listing == conflicts[1]

\* A cached record that is a current version in the caller's scope.
CurrentFor(caller, r) ==
    /\ r \in Range(db.memories)
    /\ \A s \in Range(db.memories) : s.supersedes # r.id
    /\ InScope(caller, r.tier)

\* C11: listConflicts reports a topic group exactly when it holds two current
\* records from distinct sources whose details differ after normalization;
\* a reported group is all the current records of its topic, so a superseded
\* record is never part of one.
C11_ConflictsListedExactly ==
    conflicts # <<>> =>
        /\ \A t \in Topics :
              (\E g \in Listing.groups : \A m \in g : m.topic = t)
              <=> \E a, b \in Range(db.memories) :
                     /\ CurrentFor(Listing.caller, a) /\ CurrentFor(Listing.caller, b)
                     /\ a.topic = t /\ b.topic = t
                     /\ a.source # b.source
                     /\ a.detail \ {Blank} # b.detail \ {Blank}
        /\ \A g \in Listing.groups : \E t \in Topics :
              g = {r \in Range(db.memories) : CurrentFor(Listing.caller, r) /\ r.topic = t}

\* C11 witness: A's and B's current records disagree and are listed together,
\* while B's superseded version, which agreed with A's up to padding, is not.
C11_Witness ==
    /\ conflicts # <<>>
    /\ Listing.caller = Self
    /\ \E g \in Listing.groups :
          /\ {m.id : m \in g} = {"a1", "b2"}
    /\ \E r \in Range(db.memories) : r.id = "b1" /\ r.detail = {"x", Blank}

AutoStep ==
    resolution' # resolution /\ resolution' # <<>> /\ resolution'[1].kind = "auto"

ListStep == conflicts' # conflicts /\ conflicts' # <<>>

C13_ListedUntilExplicitlyResolved ==
    /\ conflicts # <<>> => Listing.groups = listConflicts(db, Listing.caller)
    /\ (resolution # <<>> /\ resolution[1].kind = "auto") =>
          resolution[1].group \in listConflicts(db, Self)
    /\ (resolution # <<>> /\ resolution[1].kind = "explicit") =>
          \A g \in listConflicts(db, Self) :
              \A m \in g, r \in resolution[1].group : m.topic # r.topic

TieBreakKeys(m) ==
    << sourceRank(prefs, m.source, m.tier), modelTier(m.model), m.createdAt >>

----------------------------------------------------------------------------
(* Properties of sync and ingestion *)

CurrentIds(memories) == {r.id : r \in Range(CurrentVersions(memories))}

\* The event the feed delivers in a step, if any.
Delivered == feed \ feed'

\* C15: a cache rebuilt from empty by replaying what the transport holds has
\* exactly the records, chains and current versions of the cache that ingested
\* the events as they came.
C15_ReplayRebuildsCache ==
    replica # EmptyDb =>
        /\ Range(replica.memories) = Range(db.memories)
        /\ CurrentIds(replica.memories) = CurrentIds(db.memories)

\* Missing required tag, d tag outside the namespace, or unparsable payload.
Malformed(e) ==
    \/ ~e.content.json
    \/ e.d.ns \notin {"snow", "snowclaw"}
    \/ e.d.kind = "memory" /\ e.tier = NoTier

\* C16: a malformed event is dropped with a diagnostic: the cache rows, the
\* index entries and the configuration are what they were, and only that
\* event has left the feed.
C16_MalformedDropped ==
    [][\A e \in Delivered :
          Malformed(e) =>
              /\ db' = db
              /\ config' = config
              /\ dropped' = dropped + 1
              /\ feed' = feed \ {e}]_vars

\* C16 witness: the malformed event has been dropped and every well-formed
\* record of the feed is cached.
C16_Witness ==
    /\ \E e \in log : Malformed(e) /\ e \notin feed
    /\ dropped >= 1
    /\ {r.id : r \in Range(db.memories)} = {"r1", "r2", "r3"}
    /\ \A k \in db.fts : k.key.id # "m1"

\* C17: an event under a restricted key (configuration, or a private tier)
\* whose author is not the key's owner changes neither the configuration nor
\* the cache.
C17_RestrictedKeysOwnerOnly ==
    [][\A e \in Delivered :
          ( \/ e.d.kind = "config" /\ e.pubkey # Owner
            \/ e.d.kind = "memory" /\ e.tier.kind = "Private" /\ e.pubkey # e.tier.scope )
          => (config' = config /\ db' = db)]_vars

\* C17 witness: the owner's value is in force after somebody else's
\* configuration event and private-key record were delivered.
C17_Witness ==
    /\ config["global"] = {"all"}
    /\ \E e \in log : e.id = "c2" /\ e \notin feed
    /\ \E e \in log : e.id = "p1" /\ e \notin feed
    /\ \A r \in Range(db.memories) : r.id # "p1"

\* No set of cached records is closed under supersedes.
Acyclic(memories) ==
    \A S \in (SUBSET Range(memories)) \ {{}} :
        \E r \in S : \A p \in S : p.id # r.supersedes

\* The record would close a cycle: a cached record that reaches it through
\* supersedes is what it supersedes, or it supersedes itself.
WouldCloseCycle(memories, e) ==
    ~Acyclic(Append(memories, [id |-> e.id, supersedes |-> e.supersedes]))

KeyRecords(tier, topic) == {r \in Range(db.memories) : r.tier = tier /\ r.topic = topic}

CurrentOf(S) == {r \in S : ~HasSuccessor(db.memories, r)}

SingleChain(S) ==
    /\ Cardinality({r \in S : r.supersedes = None}) = 1
    /\ \A r \in S : r.supersedes # None => \E q \in S : q.id = r.supersedes
    /\ \A a, b \in Range(db.memories) :
          (a.supersedes = b.supersedes /\ a.supersedes # None /\ a # b)
          => \A q \in S : q.id # a.supersedes
    /\ \A a \in Range(db.memories) \ S : \A q \in S : q.id # a.supersedes

C21_CreatedAtNonDecreasing ==
    \A r, s \in Range(db.memories) : r.supersedes = s.id => r.createdAt >= s.createdAt

----------------------------------------------------------------------------
(* Properties of the selective indexing policy *)

Classified == decision[1]

\* A plain message under the length floor that does not mention the bot.
ShortPlain(item, ctx) ==
    item.kind = "message" /\ ~item.mention /\ Length(item) < ctx.min_length

Stored(d, item) ==
    \/ MessageAt(d.messages, item.id) # 0
    \/ \E e \in d.fts : e.key = MsgKey(item.id)

Returned(hits, item) == \E i \in 1..Len(hits) : hits[i].key = MsgKey(item.id)

\* C22: a message shorter than the length floor, from an unknown sender and
\* without a mention, is classified Skip and is never stored: whatever
\* happened since, the cache holds no row and no index entry of it, and no
\* search, the exact-phrase search on its content included, returns it.
C22_ShortUnknownSkipped ==
    /\ decision # <<>> /\ ShortPlain(Classified.item, Classified.context)
                       /\ Classified.item.sender \notin Classified.context.known
        => Classified.outcome = Skip
    /\ \A item \in PolicyItems :
        ShortPlain(item, PolicyContext(known)) /\ item.sender # Self =>
            /\ ~Stored(db, item)
            /\ \A q \in Queries, c \in Identities :
                ~Returned(search(db, prefs, q, c, MaxLimit), item)
            /\ result # <<>> => ~Returned(result[1].hits, item)

\* A short message of the unknown sender C was skipped, and the phrase search
\* on its content returned another item that holds the same words.
C22_Witness ==
    /\ decision # <<>>
    /\ Classified.item = IndexableMessage("message", "C", FALSE, {"x"})
    /\ Classified.context.known = {"B"}
    /\ Classified.outcome = Skip
    /\ result # <<>>
    /\ result[1].query = {"x"}
    /\ Len(result[1].hits) = 1
    /\ ~Returned(result[1].hits, Classified.item)

C24_MentionsAndDmsIndexed ==
    /\ \A item \in PolicyItems, k \in SUBSET Identities :
        item.kind = "dm" \/ item.mention =>
            should_index_message(item, PolicyContext(k)) = Index
    /\ decision # <<>> /\ (Classified.item.kind = "dm" \/ Classified.item.mention) =>
        /\ Classified.outcome = Index
        /\ MessageAt(db.messages, Classified.item.id) # 0
        /\ Classified.item.id \in embedded

\* A one-word reaction of the unknown sender C that mentions the bot was indexed.
C24_Witness ==
    /\ decision # <<>>
    /\ Classified.item = IndexableMessage("reaction", "C", TRUE, {"x"})
    /\ "C" \notin Classified.context.known
    /\ Classified.outcome = Index
    /\ Classified.item.id \in embedded

----------------------------------------------------------------------------
(* Properties of file indexing and the sweep *)

\* The units of a file as read: none when the path holds no file.
UnitsOf(path, file) == IF file.exists THEN ChunkRows(path, file.chunks, 0) ELSE <<>>

\* The index entries of a path's units.
IndexOf(d, path) == {e \in d.fts : e.key.type = "doc" /\ e.key.id = path}

IndexEntries(rows) ==
    { [key |-> DocKey(rows[i].path, rows[i].chunk_index), tokens |-> rows[i].content] :
        i \in 1..Len(rows) }

\* Document search for a phrase returns a unit of the path.
DocReturned(d, path, phrase) ==
    LET hits == search(d, prefs, phrase, Self, MaxLimit)
    IN  \E i \in 1..Len(hits) : hits[i].key.type = "doc" /\ hits[i].key.id = path

\* The phrase matches the index entry of a unit of the path.
DocMatches(d, path, phrase) ==
    \E e \in IndexOf(d, path) : FtsRank(d.fts, e.key, phrase) > 0

\* The phrase occurs in the file.
FileHolds(file, phrase) ==
    file.exists /\ \E i \in 1..Len(file.chunks) : file.chunks[i] \cap phrase # {}

\* C25: once the sweep that follows a modification has completed, document
\* search reflects the file's new content only: for a file unchanged since
\* the sweep read it, a phrase matches a unit of the file exactly when the
\* file holds it, so a removed phrase matches no unit and an added one does.
C25_SearchReflectsNewContent ==
    sweep.phase = "done" =>
        \A p \in IndexedPaths : files[p] = sweep.seen[p] =>
            \A q \in Queries :
                /\ DocReturned(db, p, q) <=> FileHolds(files[p], q)
                /\ DocMatches(db, p, q) <=> FileHolds(files[p], q)

\* p1 was indexed with x and rewritten to y; after the sweep a search for x
\* returns p2 only and a search for y returns p1.
C25_Witness ==
    /\ sweep.phase = "done"
    /\ sweep.had["p1"] = ChunkRows("p1", <<{"x"}>>, 0)
    /\ sweep.seen["p1"] = File(<<{"y"}>>)
    /\ files = [p \in IndexedPaths |-> IF p = "p1" THEN File(<<{"y"}>>) ELSE File(<<{"x"}>>)]
    /\ ~DocReturned(db, "p1", {"x"})
    /\ DocReturned(db, "p2", {"x"})
    /\ DocReturned(db, "p1", {"y"})

\* The step in which the sweep visits a path.
Visits(path) ==
    /\ sweep.phase = "running" /\ sweep'.phase = "running"
    /\ path \in sweep.todo /\ path \notin sweep'.todo

HashChanged(path) ==
    HashesOf(UnitsOf(path, files[path])) # HashesOf(DocsOf(db.docs, path))

----------------------------------------------------------------------------
(* Properties of remote sync and the waiting search *)

\* The caller starts waiting for this source in the step.
StartsWaiting(c, s) ==
    pending[c] = <<>> /\ pending'[c] # <<>> /\ pending'[c][1].source = s

\* C28: at most one sync task per remote source is in flight: a source never
\* has more than one network operation running, a request that arrives while
\* one is running starts none and joins it, and those that joined are
\* answered by its result.
C28_OneSyncTaskPerSource ==
    /\ [](\A s \in Sources : remote[s].running <= 1)
    /\ [][\A s \in Sources :
            /\ remote[s].running > 0 => remote'[s].running <= remote[s].running
            /\ \A c \in Callers : StartsWaiting(c, s) =>
                remote'[s].running = 1 /\ c \in remote'[s].waiters
            /\ remote'[s].running < remote[s].running =>
                \A c \in remote[s].waiters :
                    /\ pending'[c] = <<>>
                    /\ answer'[c] # <<>>
                    /\ ~answer'[c][1].stale
         ]_vars

\* B's search has joined the sync of s1 that A's search started.
C28_Witness ==
    /\ remote["s1"].running = 1
    /\ remote["s1"].waiters = {"A", "B"}
    /\ pending["A"] # <<>> /\ pending["A"][1].timer = 1
    /\ pending["B"] # <<>> /\ pending["B"][1].timer = 0

\* The search of the caller returns in the step.
Returns(c) == pending[c] # <<>> /\ pending'[c] = <<>>

\* C29: a search always eventually returns, also when the remote source never
\* answers: it returns what the cache holds, without an error; a search that
\* returns while its sync is still in flight has waited for the whole timeout
\* and flags its result stale.
C29_SearchAlwaysReturns ==
    /\ \A c \in Callers : (pending[c] # <<>>) ~> (pending[c] = <<>> /\ answer[c] # <<>>)
    /\ [][\A c \in Callers : Returns(c) =>
            /\ answer'[c] # <<>>
            /\ answer'[c][1].error = None
            /\ answer'[c][1].query = pending[c][1].query
            /\ answer'[c][1].cache = db'
            /\ HitsOf(answer'[c][1]) = search(db', prefs, pending[c][1].query, c, MaxLimit)
            /\ remote'[pending[c][1].source].running > 0 =>
                /\ pending[c][1].timer = SyncTimeout
                /\ answer'[c][1].stale
                /\ db' = db
         ]_vars

\* s1 has not answered; A's search has returned the record the cache holds
\* from s2, flagged stale.
C29_Witness ==
    /\ remote["s1"].running = 1
    /\ pending["A"] = <<>>
    /\ answer["A"] # <<>>
    /\ answer["A"][1].stale
    /\ answer["A"][1].error = None
    /\ Len(HitsOf(answer["A"][1])) = 1
    /\ MemoryAt(db.memories, "r1") = 0

----------------------------------------------------------------------------
(* Properties of concurrent writers *)

\* The cache after a job has run alone on it.
RunJob(d, job) == Applied(d, JobField(job), JobWrite(d, job))

RECURSIVE RunJobs(_, _)
RunJobs(d, jobs) == IF jobs = <<>> THEN d ELSE RunJobs(RunJob(d, jobs[1]), Tail(jobs))

Committed == {w \in WriterNames : writers[w].pc = "done"}

\* The logical key a job writes.
JobKey(job) ==
    CASE job.op = "upsert" -> <<"memory", job.arg.tier, job.arg.topic>>
      [] job.op = "upsertMessage" -> <<"message", job.arg.event_id>>
      [] job.op = "upsertDocumentChunks" -> <<"doc", job.arg.path>>

\* C30: writers are serialized per logical key: no two writers hold a
\* transaction on the same key at a time, and the cache is in every state
\* what the committed writes give when they run one after the other in some
\* order, so no committed update is lost.
C30_WritersSerialized ==
    /\ \A v, w \in WriterNames :
        /\ writers[v].pc = "writing" /\ writers[w].pc = "writing"
        /\ JobKey(writers[v].job) = JobKey(writers[w].job)
        => v = w
    /\ \E o \in Orderings(Committed) :
        db = RunJobs(EmptyDb, [i \in 1..Len(o) |-> writers[o[i]].job])

\* Ingestion and local authoring have written two versions under the same
\* key and the sweep a file; the cache holds all three.
C30_Witness ==
    /\ Committed = WriterNames
    /\ JobKey(writers["ingestion"].job) = JobKey(writers["authoring"].job)
    /\ writers["ingestion"].job # writers["authoring"].job
    /\ writers["sweep"].job.op = "upsertDocumentChunks"
    /\ Len(db.memories) = 2
    /\ Len(db.docs) = 1

----------------------------------------------------------------------------
(* Failed writes: a storage failure inside a write's transaction *)

\* The point a write has reached when the storage fails: the row is written
\* and its index entry not yet, or both are written and not yet committed.
FailurePoint(t) == IF t.pending # <<>> THEN "row" ELSE "index"

\* A rollback that undoes the index half only: the written rows stay.
RolledBackIndexOnly(d, t) == [t.staged EXCEPT !.fts = d.fts]

\* The cache after the rollback of transaction t: both halves are undone.
RolledBack(d, t) == d

\* The storage fails under the write in flight: the write is rolled back and
\* the caller gets the failure.
WriteFails ==
    /\ tx # NoTx
    /\ failure' = <<[op |-> tx[1].op, arg |-> tx[1].arg, point |-> FailurePoint(tx[1]),
                     before |-> db, staged |-> tx[1].staged]>>
    /\ db' = RolledBack(db, tx[1])
    /\ tx' = NoTx
    /\ UNCHANGED <<log, prefs, result, history, replica, replicaResult, candidates, ranked,
                   syncVars, taskVars>>
    /\ UNCHANGED <<batch, taskState, state, net, notified, logEntries>>

\* The caller has seen the failure.
FailureSeen ==
    /\ failure # <<>>
    /\ tx = NoTx
    /\ failure' = <<>>
    /\ UNCHANGED <<db, tx, log, prefs, result, history, replica, replicaResult, candidates,
                   ranked, syncVars, taskVars>>
    /\ UNCHANGED <<batch, taskState, state, net, notified, logEntries>>

InitFailure ==
    /\ db = EmptyDb
    /\ tx = NoTx
    /\ log = CacheLog
    /\ prefs = DefaultPrefs
    /\ result = <<>>
    /\ history = <<>>
    /\ replica = EmptyDb
    /\ replicaResult = <<>>
    /\ candidates = <<>>
    /\ ranked = <<>>
    /\ InitSync
    /\ InitTasks
    /\ InitMore

\* The next write begins once the failure of the last one has been reported.
NextFailure ==
    \/ failure = <<>> /\ \E e \in log : Upsert(e)
    \/ failure = <<>> /\ \E m \in MessageInputs : UpsertMessage(m)
    \/ failure = <<>> /\ \E p \in Paths, c \in ChunkLists : UpsertDocumentChunks(p, c)
    \/ FtsTrigger
    \/ Commit
    \/ WriteFails
    \/ FailureSeen
    \/ \E q \in {{"x"}} : Search(q, Self, MaxLimit)

SpecFailure == InitFailure /\ [][NextFailure]_vars

\* The rows and the index entries of one table, as a reader sees them.
HalfRows(d) == [memories |-> d.memories, messages |-> d.messages, docs |-> d.docs]

----------------------------------------------------------------------------
(* Batch writes: bounded retries of the item the storage fails on *)

MaxRetries == 2     \* retries of one item after its first failed attempt
MaxBatch == 3       \* items of a batch

\* The batches handed to the cache: items under different keys and under the
\* same key, in every order.
Batches ==
    { b \in [1..MaxBatch -> WriteJobs] : \A i, j \in 1..MaxBatch : b[i] = b[j] => i = j }

\* One item written in its own transaction.
write_item(d, item) == Applied(d, JobField(item), JobWrite(d, item))

Batch(items) ==
    [items |-> items, at |-> 1, tries |-> [i \in 1..Len(items) |-> 0],
     written |-> {}, failed |-> {}]

BatchDone(b) == b.at > Len(b.items)

\* The retries of the item are exhausted and the whole batch is given up.
give_up_batch(b) == [b EXCEPT !.failed = @ \cup {b.at}, !.at = Len(b.items) + 1]

\* The retries of the item are exhausted: the item fails, the batch goes on.
give_up(b) == [b EXCEPT !.failed = @ \cup {b.at}, !.at = @ + 1]

\* An attempt at the current item succeeds.
ItemWritten ==
    /\ batch # <<>>
    /\ ~BatchDone(batch[1])
    /\ LET b == batch[1]
       IN  /\ db' = write_item(db, b.items[b.at])
           /\ batch' = <<[b EXCEPT !.tries[b.at] = @ + 1, !.written = @ \cup {b.at},
                                   !.at = @ + 1]>>
    /\ UNCHANGED <<tx, log, prefs, result, history, replica, replicaResult, candidates, ranked,
                   syncVars, taskVars>>
    /\ UNCHANGED <<failure, taskState, state, net, notified, logEntries>>

\* An attempt at the current item fails in the storage; its transaction is
\* rolled back; the item is tried again unless its retries are used up.
ItemFails ==
    /\ batch # <<>>
    /\ ~BatchDone(batch[1])
    /\ LET b == batch[1]
           tried == [b EXCEPT !.tries[b.at] = @ + 1]
       IN  /\ failure' = <<[op |-> b.items[b.at].op, arg |-> b.items[b.at].arg,
                            point |-> "row", before |-> db,
                            staged |-> Staged(db, JobField(b.items[b.at]),
                                              JobWrite(db, b.items[b.at])).staged]>>
           /\ batch' = <<IF tried.tries[b.at] > MaxRetries THEN give_up(tried) ELSE tried>>
    /\ UNCHANGED <<db, tx, log, prefs, result, history, replica, replicaResult, candidates,
                   ranked, syncVars, taskVars>>
    /\ UNCHANGED <<taskState, state, net, notified, logEntries>>

InitBatch ==
    /\ db = EmptyDb
    /\ tx = NoTx
    /\ log = {}
    /\ prefs = DefaultPrefs
    /\ result = <<>>
    /\ history = <<>>
    /\ replica = EmptyDb
    /\ replicaResult = <<>>
    /\ candidates = <<>>
    /\ ranked = <<>>
    /\ InitSync
    /\ InitTasks
    /\ failure = <<>>
    /\ batch \in { <<Batch(b)>> : b \in Batches }
    /\ taskState = <<>>
    /\ state = <<>>
    /\ net = <<>>
    /\ notified = <<>>
    /\ logEntries = <<>>

NextBatch ==
    \/ ItemWritten
    \/ ItemFails

SpecBatch == InitBatch /\ [][NextBatch]_vars

\* The items of a batch at the given positions, in the order of the batch.
RECURSIVE ItemsAt(_, _, _)
ItemsAt(items, at, i) ==
    IF i > Len(items) THEN <<>>
    ELSE (IF i \in at THEN <<items[i]>> ELSE <<>>) \o ItemsAt(items, at, i + 1)

\* C32: an item the storage fails on is tried again, at most MaxRetries times
\* after the first attempt; when its retries are used up that item alone
\* fails: the batch goes on, and at its end every item that did not fail is
\* written, the cache being what the written items give in batch order.
C32_BoundedRetriesPerItem ==
    /\ batch # <<>> =>
        LET b == batch[1]
        IN  /\ \A i \in 1..Len(b.items) : b.tries[i] <= MaxRetries + 1
            /\ \A i \in b.failed : b.tries[i] = MaxRetries + 1
            /\ b.written \cap b.failed = {}
            /\ BatchDone(b) =>
                /\ b.written \cup b.failed = 1..Len(b.items)
                /\ db = RunJobs(EmptyDb, ItemsAt(b.items, b.written, 1))

\* The first item of a batch failed after all its retries, the second was
\* written after one retry and the rest at once.
C32_Witness ==
    /\ batch # <<>>
    /\ BatchDone(batch[1])
    /\ batch[1].failed = {1}
    /\ batch[1].written = 2..Len(batch[1].items)
    /\ batch[1].tries[1] = MaxRetries + 1
    /\ batch[1].tries[2] = 2
    /\ \A i \in 3..Len(batch[1].items) : batch[1].tries[i] = 1
    /\ db # EmptyDb

----------------------------------------------------------------------------
(* Query text: how a caller's query string reaches the text index *)

MaxQuery == 5       \* characters of a query string

Quote == "\""
Space == " "
QueryChars == {"x", "y", Quote, Space}
QueryTexts == UNION { [1..n -> QueryChars] : n \in 0..MaxQuery }

QueryError == "QueryError"

\* query.split_whitespace(): the maximal runs of non-blank characters.
RECURSIVE SplitFrom(_, _, _)
SplitFrom(text, i, word) ==
    IF i > Len(text) THEN (IF word = <<>> THEN <<>> ELSE <<word>>)
    ELSE IF text[i] = Space
         THEN (IF word = <<>> THEN <<>> ELSE <<word>>) \o SplitFrom(text, i + 1, <<>>)
         ELSE SplitFrom(text, i + 1, Append(word, text[i]))

split_whitespace(text) == SplitFrom(text, 1, <<>>)

\* .join(" OR ")
RECURSIVE Join(_, _)
Join(parts, sep) ==
    IF parts = <<>> THEN <<>>
    ELSE IF Len(parts) = 1 THEN parts[1]
    ELSE parts[1] \o sep \o Join(Tail(parts), sep)

\* fts_query: every word wrapped in double quotes as it is, joined by OR
fts_query(text) ==
    LET words == split_whitespace(text)
    IN  Join([i \in 1..Len(words) |-> <<Quote>> \o words[i] \o <<Quote>>],
             <<Space, "O", "R", Space>>)

\* The text index reads the expression: strings in double quotes, in which a
\* doubled quote stands for one quote, and bare words.  The result is the list
\* of tokens, or no list when a string is left open.
RECURSIVE Lex(_, _)
RECURSIVE LexString(_, _, _)
RECURSIVE LexBare(_, _, _)
Lex(e, i) ==
    IF i > Len(e) THEN [ok |-> TRUE, tokens |-> <<>>]
    ELSE IF e[i] = Space THEN Lex(e, i + 1)
    ELSE IF e[i] = Quote THEN LexString(e, i + 1, <<>>)
    ELSE LexBare(e, i, <<>>)

LexString(e, i, acc) ==
    IF i > Len(e) THEN [ok |-> FALSE, tokens |-> <<>>]
    ELSE IF e[i] # Quote THEN LexString(e, i + 1, Append(acc, e[i]))
    ELSE IF i < Len(e) /\ e[i + 1] = Quote THEN LexString(e, i + 2, Append(acc, Quote))
    ELSE LET rest == Lex(e, i + 1)
         IN  [ok |-> rest.ok,
              tokens |-> <<[kind |-> "string", chars |-> acc]>> \o rest.tokens]

LexBare(e, i, acc) ==
    IF i > Len(e) \/ e[i] \in {Space, Quote}
    THEN LET rest == Lex(e, i)
         IN  [ok |-> rest.ok, tokens |-> <<[kind |-> "bare", chars |-> acc]>> \o rest.tokens]
    ELSE LexBare(e, i + 1, Append(acc, e[i]))

IsOr(token) == token.kind = "bare" /\ token.chars = <<"O", "R">>

\* The terms of a phrase: the tokenizer splits its characters at everything
\* that is not a letter.
Terms(chars) == split_whitespace([i \in 1..Len(chars) |->
                                    IF chars[i] = Quote THEN Space ELSE chars[i]])

\* The expression as the text index parses it: phrases separated by OR, or a
\* syntax error.
fts5_parse(e) ==
    LET lexed == Lex(e, 1)
        n == Len(lexed.tokens)
        wellFormed ==
            /\ lexed.ok
            /\ n % 2 = 1
            /\ \A i \in 1..n : IF i % 2 = 1 THEN ~IsOr(lexed.tokens[i])
                                            ELSE IsOr(lexed.tokens[i])
    IN  IF wellFormed
        THEN [ok |-> TRUE,
              phrases |-> { Terms(lexed.tokens[i].chars) : i \in {j \in 1..n : j % 2 = 1} }]
        ELSE [ok |-> FALSE, phrases |-> {}]

\* A row matches a phrase when it holds every term of the phrase.
PhraseMatches(phrase, tokens) ==
    /\ phrase # <<>>
    /\ \A i \in 1..Len(phrase) : Len(phrase[i]) = 1 /\ phrase[i][1] \in tokens

\* search(query): the expression is built from the query text and handed to
\* the text index; its syntax error goes back to the caller.
search_text(d, prefList, text, caller, limit) ==
    LET parsed == fts5_parse(fts_query(text))
        terms == UNION { { p[i][1] : i \in 1..Len(p) } :
                         p \in { q \in parsed.phrases : PhraseMatches(q, Tokens) } }
        found == IF terms = {} THEN <<>>
                 ELSE search(d, prefList, terms, caller, Len(Items(d)))
        hits == SelectSeq(found, LAMBDA h : \E p \in parsed.phrases : PhraseMatches(p, h.text))
    IN  IF parsed.ok
        THEN [query |-> text, caller |-> caller, limit |-> limit, error |-> None,
              hits |-> Take(hits, limit)]
        ELSE [query |-> text, caller |-> caller, limit |-> limit, error |-> QueryError,
              hits |-> None]

\* A reader searches with a query string.
TextSearch(text, caller, limit) ==
    /\ ReaderIdle
    /\ result' = <<search_text(db, prefs, text, caller, limit)>>
    /\ UNCHANGED <<db, tx, log, prefs, history, replica, replicaResult, candidates, ranked,
                   syncVars, taskVars, moreVars>>

\* The reader takes the response.
TakeResult ==
    /\ result # <<>>
    /\ result' = <<>>
    /\ UNCHANGED <<db, tx, log, prefs, history, replica, replicaResult, candidates, ranked,
                   syncVars, taskVars, moreVars>>

InitQuery ==
    /\ db = EmptyDb
    /\ tx = NoTx
    /\ log = CacheLog
    /\ prefs = DefaultPrefs
    /\ result = <<>>
    /\ history = <<>>
    /\ replica = EmptyDb
    /\ replicaResult = <<>>
    /\ candidates = <<>>
    /\ ranked = <<>>
    /\ InitSync
    /\ InitTasks
    /\ InitMore

NextQuery ==
    \/ \E e \in log : Upsert(e)
    \/ FtsTrigger
    \/ Commit
    \/ \E text \in QueryTexts : TextSearch(text, "B", MaxLimit)
    \/ TakeResult

SpecQuery == InitQuery /\ [][NextQuery]_vars

\* The query holds a character of the index's syntax that the caller did not
\* escape.
MalformedQuery(text) == \E i \in 1..Len(text) : text[i] = Quote

----------------------------------------------------------------------------
(* Task status events: kinds 1630-1637 and the task state machine *)

MaxHistory == 4     \* status changes of one task the model follows

TaskStatuses ==
    {"Draft", "Queued", "Executing", "Blocked", "Review", "Failed", "Done", "Cancelled"}

\* The status a status event of a kind sets; None for a kind out of range.
status_of_kind(kind) ==
    CASE kind = 1630 -> "Queued"
      [] kind = 1631 -> "Done"
      [] kind = 1632 -> "Cancelled"
      [] kind = 1633 -> "Draft"
      [] kind = 1634 -> "Executing"
      [] kind = 1635 -> "Blocked"
      [] kind = 1636 -> "Review"
      [] kind = 1637 -> "Failed"
      [] OTHER -> None

\* The state machine: the listed transitions.
Transitions ==
    { <<"Draft", "Queued">>, <<"Draft", "Cancelled">>,
      <<"Queued", "Executing">>, <<"Queued", "Draft">>, <<"Queued", "Cancelled">>,
      <<"Executing", "Review">>, <<"Executing", "Blocked">>, <<"Executing", "Failed">>,
      <<"Executing", "Done">>, <<"Executing", "Cancelled">>,
      <<"Blocked", "Queued">>, <<"Blocked", "Cancelled">>,
      <<"Review", "Done">>, <<"Review", "Queued">>, <<"Review", "Cancelled">>,
      <<"Failed", "Queued">>, <<"Failed", "Cancelled">> }

\* Every status event in range is applied.
valid_transition_any(from, to) == TRUE

valid_transition(from, to) == <<from, to>> \in Transitions

\* The kinds of the events that arrive: the status kinds and one on each side.
EventKinds == 1629..1638
\* The task the model follows and another event id that is no task.
TaskIds == {"task1", "note1"}

\* The validation rules of a status event on the task.
StatusEventValid(root, kind, current) ==
    /\ root = "task1"
    /\ status_of_kind(kind) # None
    /\ valid_transition(current, status_of_kind(kind))

\* A status event with an e tag (root marker) and a kind arrives.
StatusEvent(root, kind) ==
    /\ \/ Len(taskState[1].history) < MaxHistory
       \/ ~StatusEventValid(root, kind, taskState[1].status)
    /\ LET t == taskState[1]
       IN  IF StatusEventValid(root, kind, t.status)
           THEN taskState' = <<[status |-> status_of_kind(kind),
                                history |-> Append(t.history, status_of_kind(kind)),
                                last |-> [root |-> root, kind |-> kind, from |-> t.status,
                                          accepted |-> TRUE]]>>
           ELSE taskState' = <<[t EXCEPT !.last = [root |-> root, kind |-> kind,
                                                   from |-> t.status, accepted |-> FALSE]]>>
    /\ UNCHANGED <<db, tx, log, prefs, result, history, replica, replicaResult, candidates,
                   ranked, syncVars, taskVars>>
    /\ UNCHANGED <<failure, batch, state, net, notified, logEntries>>

InitTask ==
    /\ db = EmptyDb
    /\ tx = NoTx
    /\ log = {}
    /\ prefs = DefaultPrefs
    /\ result = <<>>
    /\ history = <<>>
    /\ replica = EmptyDb
    /\ replicaResult = <<>>
    /\ candidates = <<>>
    /\ ranked = <<>>
    /\ InitSync
    /\ InitTasks
    /\ failure = <<>>
    /\ batch = <<>>
    /\ taskState = <<[status |-> "Draft", history |-> <<"Draft">>, last |-> <<>>]>>
    /\ state = <<>>
    /\ net = <<>>
    /\ notified = <<>>
    /\ logEntries = <<>>

NextTask == \E root \in TaskIds, kind \in EventKinds : StatusEvent(root, kind)

SpecTask == InitTask /\ [][NextTask]_vars

\* C34: the status of a task changes only along a listed transition, by an
\* accepted status event; once the task is Done or Cancelled its status never
\* changes again.
C34_OnlyListedTransitions ==
    [][ /\ taskState'[1].status # taskState[1].status =>
            /\ <<taskState[1].status, taskState'[1].status>> \in Transitions
            /\ taskState'[1].last.accepted
        /\ taskState'[1].last.accepted =>
            <<taskState[1].status, taskState'[1].status>> \in Transitions
        /\ taskState[1].status \in {"Done", "Cancelled"} =>
            taskState'[1].status = taskState[1].status ]_vars

\* A task that went Draft, Queued, Executing, Done was then sent a status
\* event for Queued, which was rejected.
C34_Witness ==
    /\ taskState # <<>>
    /\ taskState[1].history = <<"Draft", "Queued", "Executing", "Done">>
    /\ taskState[1].status = "Done"
    /\ taskState[1].last # <<>>
    /\ taskState[1].last.from = "Done"
    /\ taskState[1].last.kind = 1630
    /\ taskState[1].last.root = "task1"
    /\ ~taskState[1].last.accepted

----------------------------------------------------------------------------
(* The debug console's relay module (ui/src/relay.ts)                       *)
(* A state of the model is a state between two tasks of the event loop: a   *)
(* function runs to its end or to its await.                                *)

MaxRelays == 2      \* Relay objects created
MaxSubs == 2        \* Sub objects created
MaxNow == 1         \* readings of the millisecond clock

Urls == {"u1", "u2"}
Null == 0

\* A Relay object and a Sub object of the library, as the module uses them.
RelayObject(url) == [url |-> url, open |-> TRUE]
SubObject(r) == [relay |-> r, closed |-> FALSE]

\* `snow-mem-${Date.now()}`
SubId(now) == <<"snow-mem", now>>
SubIds == { SubId(t) : t \in 0..MaxNow }

NoSubscriptions == <<>>

\* const state: RelayState
InitialState ==
    [url |-> "", relay |-> Null, status |-> "disconnected",
     subscriptions |-> NoSubscriptions, eventCount |-> 0]

\* The status listener of the console: what it shows for a status.
StatusShown(st, s) ==
    [status |-> s,
     connectDisabled |-> s = "connecting",
     disconnectDisabled |-> s = "disconnected",
     relayInfo |-> IF s = "connected" THEN st.url ELSE ""]

\* setStatus(s): the status is stored and every listener called with it.
setStatus(st, s) ==
    [state |-> [st EXCEPT !.status = s], notified |-> <<StatusShown(st, s)>>]

\* relay.close() / sub.close() on the objects of the library
CloseRelay(relays, r) == [relays EXCEPT ![r].open = FALSE]

\* The subscriptions are dropped from the map without being closed.
CloseSubsNone(subs, which) == subs

CloseSubs(subs, which) ==
    [i \in 1..Len(subs) |-> IF i \in which THEN [subs[i] EXCEPT !.closed = TRUE] ELSE subs[i]]

\* The Sub objects the map holds.
Held(st) == { st.subscriptions[id] : id \in DOMAIN st.subscriptions }

\* connect(url), up to its await: the relay held is closed, the url stored,
\* the status set, a Relay created and its connect() awaited.
Connect(url) ==
    /\ Len(net.relays) < MaxRelays
    /\ LET closed == IF state.relay # Null THEN CloseRelay(net.relays, state.relay)
                     ELSE net.relays
           set == setStatus([state EXCEPT !.url = url], "connecting")
           r == Len(net.relays) + 1
       IN  /\ state' = set.state
           /\ notified' = set.notified
           /\ net' = [net EXCEPT !.relays = Append(closed, RelayObject(url)),
                                 !.awaiting = @ \cup {r},
                                 !.last = [op |-> "connect"]]
    /\ UNCHANGED <<db, tx, log, prefs, result, history, replica, replicaResult, candidates,
                   ranked, syncVars, taskVars>>
    /\ UNCHANGED <<failure, batch, taskState, logEntries>>

\* connect(url), after its await: the relay is stored and the status set.
ConnectResolves(r) ==
    /\ r \in net.awaiting
    /\ LET set == setStatus([state EXCEPT !.relay = r], "connected")
       IN  /\ state' = set.state
           /\ notified' = set.notified
    /\ net' = [net EXCEPT !.awaiting = @ \ {r}, !.last = [op |-> "connected"]]
    /\ UNCHANGED <<db, tx, log, prefs, result, history, replica, replicaResult, candidates,
                   ranked, syncVars, taskVars>>
    /\ UNCHANGED <<failure, batch, taskState, logEntries>>

\* connect(url), its await rejected: the status is set and the error rethrown.
ConnectRejects(r) ==
    /\ r \in net.awaiting
    /\ LET set == setStatus(state, "disconnected")
       IN  /\ state' = set.state
           /\ notified' = set.notified
    /\ net' = [net EXCEPT !.relays = CloseRelay(@, r), !.awaiting = @ \ {r},
                          !.last = [op |-> "connect failed"]]
    /\ UNCHANGED <<db, tx, log, prefs, result, history, replica, replicaResult, candidates,
                   ranked, syncVars, taskVars>>
    /\ UNCHANGED <<failure, batch, taskState, logEntries>>

\* disconnect()
Disconnect ==
    /\ LET held == state.relay # Null
           cleared == IF held THEN [state EXCEPT !.subscriptions = NoSubscriptions,
                                                 !.relay = Null]
                      ELSE state
           set == setStatus(cleared, "disconnected")
       IN  /\ state' = set.state
           /\ notified' = set.notified
           /\ net' = [net EXCEPT
                        !.subs = IF held THEN CloseSubs(@, Held(state)) ELSE @,
                        !.relays = IF held THEN CloseRelay(@, state.relay) ELSE @,
                        !.last = [op |-> "disconnect", had |-> Cardinality(Held(state))]]
    /\ UNCHANGED <<db, tx, log, prefs, result, history, replica, replicaResult, candidates,
                   ranked, syncVars, taskVars>>
    /\ UNCHANGED <<failure, batch, taskState, logEntries>>

\* subscribeMemoryEvents()
SubscribeMemoryEvents ==
    /\ IF state.relay = Null
       THEN /\ net' = [net EXCEPT !.last = [op |-> "subscribeMemoryEvents",
                                            returned |-> None]]
            /\ UNCHANGED state
       ELSE /\ Len(net.subs) < MaxSubs
            /\ LET subId == SubId(net.now)
                   sub == Len(net.subs) + 1
               IN  /\ state' = [state EXCEPT
                                  !.subscriptions = (subId :> sub) @@ state.subscriptions]
                   /\ net' = [net EXCEPT !.subs = Append(@, SubObject(state.relay)),
                                         !.last = [op |-> "subscribeMemoryEvents",
                                                   returned |-> subId]]
    /\ UNCHANGED <<db, tx, log, prefs, result, history, replica, replicaResult, candidates,
                   ranked, syncVars, taskVars>>
    /\ UNCHANGED <<failure, batch, taskState, notified, logEntries>>

\* unsubscribe(subId)
Unsubscribe(subId) ==
    /\ IF subId \in DOMAIN state.subscriptions
       THEN /\ net' = [net EXCEPT !.subs = CloseSubs(@, {state.subscriptions[subId]}),
                                  !.last = [op |-> "unsubscribe"]]
            /\ state' = [state EXCEPT
                           !.subscriptions = [id \in DOMAIN @ \ {subId} |-> @[id]]]
       ELSE /\ net' = [net EXCEPT !.last = [op |-> "unsubscribe"]]
            /\ UNCHANGED state
    /\ UNCHANGED <<db, tx, log, prefs, result, history, replica, replicaResult, candidates,
                   ranked, syncVars, taskVars>>
    /\ UNCHANGED <<failure, batch, taskState, notified, logEntries>>

\* A millisecond passes.
ClockTick ==
    /\ net.now < MaxNow
    /\ net' = [net EXCEPT !.now = @ + 1]
    /\ UNCHANGED <<db, tx, log, prefs, result, history, replica, replicaResult, candidates,
                   ranked, syncVars, taskVars>>
    /\ UNCHANGED <<failure, batch, taskState, state, notified, logEntries>>

InitRelay ==
    /\ db = EmptyDb
    /\ tx = NoTx
    /\ log = {}
    /\ prefs = DefaultPrefs
    /\ result = <<>>
    /\ history = <<>>
    /\ replica = EmptyDb
    /\ replicaResult = <<>>
    /\ candidates = <<>>
    /\ ranked = <<>>
    /\ InitSync
    /\ InitTasks
    /\ failure = <<>>
    /\ batch = <<>>
    /\ taskState = <<>>
    /\ state = InitialState
    /\ net = [relays |-> <<>>, subs |-> <<>>, awaiting |-> {}, now |-> 0,
              last |-> [op |-> "load"]]
    /\ notified = <<>>
    /\ logEntries = <<>>

NextRelay ==
    \/ \E url \in Urls : Connect(url)
    \/ \E r \in 1..MaxRelays : ConnectResolves(r)
    \/ \E r \in 1..MaxRelays : ConnectRejects(r)
    \/ Disconnect
    \/ SubscribeMemoryEvents
    \/ \E id \in SubIds : Unsubscribe(id)
    \/ ClockTick

SpecRelay == InitRelay /\ [][NextRelay]_vars

----------------------------------------------------------------------------
(* Properties of the relay module *)

\* C35: when disconnect() returns, whatever the state before, no relay is
\* held, the map of subscriptions is empty, every subscription the map held
\* has been closed, and the status is 'disconnected' with the status
\* listeners called with it.
C35_DisconnectClearsAll ==
    [][ Disconnect =>
          /\ state'.relay = Null
          /\ state'.subscriptions = NoSubscriptions
          /\ \A i \in Held(state) : net'.subs[i].closed
          /\ state'.status = "disconnected"
          /\ notified' # <<>>
          /\ notified'[1].status = "disconnected"
          /\ notified'[1].disconnectDisabled ]_vars

\* disconnect() has returned on a connection that held two subscriptions:
\* both are closed, as is the relay.
C35_Witness ==
    /\ net.last.op = "disconnect"
    /\ net.last.had = 2
    /\ \A i \in 1..Len(net.subs) : net.subs[i].closed
    /\ \E r \in 1..Len(net.relays) : ~net.relays[r].open
    /\ state.relay = Null
    /\ state.subscriptions = NoSubscriptions
    /\ state.status = "disconnected"

\* C37: subscribeMemoryEvents() returns null and changes nothing when no
\* relay is held; otherwise it registers the new subscription under an id the
\* map did not hold, so that the map grows by one entry and every
\* subscription it held is still in it.
C37_SubscribeAddsOne ==
    [][ SubscribeMemoryEvents =>
          IF state.relay = Null
          THEN net'.last.returned = None /\ state' = state /\ net'.subs = net.subs
          ELSE /\ net'.last.returned \notin DOMAIN state.subscriptions
               /\ Cardinality(DOMAIN state'.subscriptions)
                    = Cardinality(DOMAIN state.subscriptions) + 1
               /\ Held(state) \subseteq Held(state') ]_vars

\* C38: the status is 'connected' exactly when a relay is held, and then the
\* url stored is the url that relay was opened with.
C38_ConnectedIffRelayHeld ==
    /\ state.status = "connected" <=> state.relay # Null
    /\ state.status = "connected" => state.url = net.relays[state.relay].url

\* C39: after disconnect(), until connect() is called again, no relay is
\* installed and the status is not changed from 'disconnected'.
C39_DisconnectStopsPendingConnect ==
    [][ net.last.op = "disconnect" /\ net'.last.op # "connect" =>
          state'.relay = Null /\ state'.status = "disconnected" ]_vars

\* C40: every subscription in the map was opened on the relay now held, which
\* is open, and has not been closed; the map is empty when no relay is held.
C40_SubscriptionsOfHeldRelay ==
    /\ \A i \in Held(state) :
        /\ state.relay # Null
        /\ net.subs[i].relay = state.relay
        /\ net.relays[state.relay].open
        /\ ~net.subs[i].closed
    /\ state.relay = Null => state.subscriptions = NoSubscriptions

----------------------------------------------------------------------------
(* The debug console's event log (ui/src/debug-console.ts)                  *)

LogLimit == 200     \* while (logEntries.children.length > 200)
MaxEvents == 202    \* relay events the model delivers

\* The log keeps every entry.
trim_none(children) == children

\* while (children.length > 200) removeChild(lastChild)
RECURSIVE trim(_)
trim(children) ==
    IF Len(children) > LogLimit THEN trim(SubSeq(children, 1, Len(children) - 1))
    ELSE children

\* logEntries.prepend(entry)
prepend(children, entry) == <<entry>> \o children

\* The relay delivers an event on an open subscription: onevent counts it and
\* calls the event listener, which adds the entry of the event to the log.
RelayEvent ==
    /\ state.eventCount < MaxEvents
    /\ \E i \in Held(state) : ~net.subs[i].closed
    /\ state' = [state EXCEPT !.eventCount = @ + 1]
    /\ logEntries' = trim(prepend(logEntries, [event |-> state.eventCount + 1]))
    /\ UNCHANGED <<db, tx, log, prefs, result, history, replica, replicaResult, candidates,
                   ranked, syncVars, taskVars>>
    /\ UNCHANGED <<failure, batch, taskState, net, notified>>

\* The clear button: logEntries.innerHTML = ''
ClearLog ==
    /\ logEntries # <<>>
    /\ logEntries' = <<>>
    /\ UNCHANGED <<db, tx, log, prefs, result, history, replica, replicaResult, candidates,
                   ranked, syncVars, taskVars>>
    /\ UNCHANGED <<failure, batch, taskState, state, net, notified>>

\* The console is connected and subscribed, the log empty.
InitLog ==
    /\ db = EmptyDb
    /\ tx = NoTx
    /\ log = {}
    /\ prefs = DefaultPrefs
    /\ result = <<>>
    /\ history = <<>>
    /\ replica = EmptyDb
    /\ replicaResult = <<>>
    /\ candidates = <<>>
    /\ ranked = <<>>
    /\ InitSync
    /\ InitTasks
    /\ failure = <<>>
    /\ batch = <<>>
    /\ taskState = <<>>
    /\ state = [InitialState EXCEPT !.url = "u1", !.relay = 1, !.status = "connected",
                                    !.subscriptions = (SubId(0) :> 1)]
    /\ net = [relays |-> <<RelayObject("u1")>>, subs |-> <<SubObject(1)>>, awaiting |-> {},
              now |-> 0, last |-> [op |-> "subscribeMemoryEvents", returned |-> SubId(0)]]
    /\ notified = <<StatusShown(state, "connected")>>
    /\ logEntries = <<>>

NextLog ==
    \/ RelayEvent
    \/ ClearLog

SpecLog == InitLog /\ [][NextLog]_vars

\* C36: the log never holds more than 200 entries and holds them newest
\* first; every relay event puts exactly one entry, its own, in front of the
\* entries there were, of which only the oldest are dropped.
C36_LogBoundedNewestFirst ==
    /\ [](/\ Len(logEntries) <= LogLimit
          /\ \A i \in 1..Len(logEntries) - 1 :
                logEntries[i].event > logEntries[i + 1].event)
    /\ [][ RelayEvent =>
            /\ logEntries'[1] = [event |-> state'.eventCount]
            /\ Len(logEntries') = (IF Len(logEntries) < LogLimit THEN Len(logEntries) + 1
                                   ELSE LogLimit)
            /\ Tail(logEntries') = SubSeq(logEntries, 1, Len(logEntries') - 1) ]_vars

\* The log is full and the first two events delivered are no longer in it.
C36_Witness ==
    /\ Len(logEntries) = LogLimit
    /\ state.eventCount = LogLimit + 2
    /\ logEntries[1].event = LogLimit + 2
    /\ logEntries[LogLimit].event = 3

====
